---- MODULE Spec2Model ----
(***************************************************************************)
(* Model of GeocodingService (src/unnamed/part_002): the address parser,   *)
(* the fuzzy matcher, the road-type normaliser, the mismatch table and the *)
(* candidate selection (findBestResult).                                   *)
(* AddressFormComponent and App, which submit an address to geocode and    *)
(* take its answer, are modelled at the end of the module.                 *)
(*                                                                         *)
(* A JavaScript string is a sequence of one-character strings.  An absent  *)
(* (undefined) field and the empty string are both the empty sequence:     *)
(* the code only tests such fields for truthiness.                         *)
(***************************************************************************)
EXTENDS Integers, Sequences, FiniteSets, TLC

VARIABLES
  str1,     \* first string argument of the helper under call
  str2,     \* second string argument of the helper under call
  address,  \* originalAddress handed to parseAddress / findBestResult
  results,  \* the provider's candidate list (data.results)
  hasResults, \* whether the response body has a results property at all
  op,       \* name of the last method called, "none" before any call
  ret,      \* what that call returned or threw
  component, \* the fields of AddressFormComponent
  app,      \* the fields of App that the form's outputs write
  inFlight, \* the geocode observables subscribed to and not yet called back
  requests, \* how many geocode requests onSubmit has issued
  outputs   \* the output events of the last handler, in order

vars == <<str1, str2, address, results, hasResults, op, ret,
          component, app, inFlight, requests, outputs>>

\* the state of the form and of App
formVars == <<component, app, inFlight, requests, outputs>>

\* AddressFormComponent and App as constructed: every field empty, nothing
\* loading, no location, no request issued.  null and the empty string are
\* both "" (an error) or <<>> (a field, a location): the code only tests
\* them for truthiness.
FormConstructed ==
  /\ component = [italianCountryCode |-> <<>>, roadType |-> <<>>,
                  roadName |-> <<>>, city |-> <<>>, county |-> <<>>,
                  postalCode |-> <<>>, previousCountryCode |-> <<>>,
                  error |-> "", isLoading |-> FALSE, formModified |-> TRUE]
  /\ app = [currentLocation |-> <<>>, error |-> ""]
  /\ inFlight = {}
  /\ requests = 0
  /\ outputs = <<>>

(***************************************************************************)
(* Bounds of the explored inputs.                                          *)
(***************************************************************************)
MaxLen1 == 3
MaxLen2 == 2
MaxLevLen == 3
MaxPad == 1
MaxSep == 2
MaxSegs == 5
MaxResults == 2

(***************************************************************************)
(* JavaScript String primitives.                                           *)
(***************************************************************************)
UpperChars == <<"A", "B", "C", "D", "E", "F", "G", "H", "I", "J", "K", "L", "M",
                "N", "O", "P", "Q", "R", "S", "T", "U", "V", "W", "X", "Y", "Z">>
LowerChars == <<"a", "b", "c", "d", "e", "f", "g", "h", "i", "j", "k", "l", "m",
                "n", "o", "p", "q", "r", "s", "t", "u", "v", "w", "x", "y", "z">>
Digits == {"0", "1", "2", "3", "4", "5", "6", "7", "8", "9"}

\* String.prototype.toLowerCase on one code unit
LowerChar(c) ==
  IF \E i \in 1..Len(UpperChars) : UpperChars[i] = c
  THEN LowerChars[CHOOSE i \in 1..Len(UpperChars) : UpperChars[i] = c]
  ELSE c

\* a faulty toLowerCase that leaves the letter case as it is
toLowerCaseKeepsCase(s) == s

toLowerCase(s) == [i \in 1..Len(s) |-> LowerChar(s[i])]

\* the regular expression class \s, as far as the explored alphabet goes
IsSpace(c) == c \in {" ", "\t"}

\* the regular expression class \d
IsDigit(c) == c \in Digits

\* the regular expression class \w
IsWordChar(c) ==
  \/ IsDigit(c)
  \/ c = "_"
  \/ \E i \in 1..Len(UpperChars) : c = UpperChars[i] \/ c = LowerChars[i]

RECURSIVE trimStart(_)
trimStart(s) ==
  IF s # <<>> /\ IsSpace(Head(s)) THEN trimStart(Tail(s)) ELSE s

RECURSIVE trimEnd(_)
trimEnd(s) ==
  IF s # <<>> /\ IsSpace(s[Len(s)]) THEN trimEnd(SubSeq(s, 1, Len(s) - 1)) ELSE s

\* a faulty trim, which leaves the trailing whitespace
trimLeavesEnd(s) == trimStart(s)

\* String.prototype.trim
trim(s) == trimEnd(trimStart(s))

\* String.prototype.startsWith
startsWith(s, p) == Len(p) <= Len(s) /\ SubSeq(s, 1, Len(p)) = p

\* String.prototype.includes
includes(s, sub) ==
  \E i \in 0..(Len(s) - Len(sub)) : SubSeq(s, i + 1, i + Len(sub)) = sub

\* String.prototype.substring(n), n within the string
substring(s, n) == SubSeq(s, n + 1, Len(s))

\* String.prototype.split(/\s+/): the pieces between maximal whitespace runs,
\* empty first and last pieces included ("" gives one empty piece)
RECURSIVE splitWsFrom(_, _, _)
splitWsFrom(s, cur, acc) ==
  IF s = <<>> THEN Append(acc, cur)
  ELSE IF IsSpace(Head(s)) THEN splitWsFrom(trimStart(s), <<>>, Append(acc, cur))
  ELSE splitWsFrom(Tail(s), Append(cur, Head(s)), acc)

splitWs(s) == splitWsFrom(s, <<>>, <<>>)

\* String.prototype.split(','): every comma separates, empty pieces are kept
RECURSIVE splitCommaFrom(_, _, _)
splitCommaFrom(s, cur, acc) ==
  IF s = <<>> THEN Append(acc, cur)
  ELSE IF Head(s) = "," THEN splitCommaFrom(Tail(s), <<>>, Append(acc, cur))
  ELSE splitCommaFrom(Tail(s), Append(cur, Head(s)), acc)

splitComma(s) == splitCommaFrom(s, <<>>, <<>>)

\* Array.prototype.join(' ')
RECURSIVE joinSpace(_)
joinSpace(words) ==
  IF words = <<>> THEN <<>>
  ELSE IF Len(words) = 1 THEN words[1]
  ELSE words[1] \o <<" ">> \o joinSpace(Tail(words))

Min2(x, y) == IF x <= y THEN x ELSE y

(***************************************************************************)
(* levenshteinDistance (part_002:701-721): the matrix is filled row by     *)
(* row; a row is the sequence matrix[j][0..str1.length].                   *)
(***************************************************************************)
\* a faulty cell that charges a substitution for equal characters too
levCellIgnoresIndicator(left, up, diagonal, indicator) ==
  Min2(Min2(left + 1, up + 1), diagonal + 1)

\* matrix[j][i] from matrix[j][i-1], matrix[j-1][i] and matrix[j-1][i-1]
\* (lines 712-716)
levCell(left, up, diagonal, indicator) ==
  Min2(Min2(left + 1, up + 1), diagonal + indicator)

\* one row of the matrix: cur holds matrix[j][0..i-1], prev is matrix[j-1];
\* matrix[j][i] is stored, as a value, before the loop moves on to i + 1
RECURSIVE levFillRow(_, _, _, _, _)
levFillRow(s1, ch, prev, cur, i) ==
  IF i > Len(s1) THEN cur
  ELSE CHOOSE row \in
         {levFillRow(s1, ch, prev, filled, i + 1) :
            filled \in {Append(cur, levCell(cur[i], prev[i + 1], prev[i],
                                            IF s1[i] = ch THEN 0 ELSE 1))}} : TRUE

\* the rows from j on; row j is complete, as a value, before row j + 1
RECURSIVE levRows(_, _, _, _)
levRows(s1, s2, prev, j) ==
  IF j > Len(s2) THEN prev[Len(s1) + 1]
  ELSE CHOOSE d \in
         {levRows(s1, s2, row, j + 1) :
            row \in {levFillRow(s1, s2[j], prev, <<j>>, 1)}} : TRUE

levenshteinDistance(s1, s2) ==
  levRows(s1, s2, [i \in 1..(Len(s1) + 1) |-> i - 1], 1)

(***************************************************************************)
(* fuzzyMatch (part_002:668-696)                                           *)
(***************************************************************************)
\* the number of edits fuzzyMatch tolerates
MaxTypos == 2

\* a faulty prefix rule that also asks for equal word counts
isWordPrefixOfSameCount(s1, s2, s1Words, s2Words) ==
  /\ Len(s1Words) = Len(s2Words)
  /\ startsWith(s2, s1 \o <<" ">>) \/ startsWith(s1, s2 \o <<" ">>)
  /\ Len(s1Words) > 1 \/ Len(s2Words) > 1

\* the condition of lines 683-686: one string is the other, a space and more
isWordPrefix(s1, s2, s1Words, s2Words) ==
  /\ startsWith(s2, s1 \o <<" ">>) \/ startsWith(s1, s2 \o <<" ">>)
  /\ Len(s1Words) > 1 \/ Len(s2Words) > 1

\* a faulty typo test that tolerates one edit fewer
withinTyposExclusive(s1, s2) == levenshteinDistance(s1, s2) < MaxTypos

\* the distance test of line 691
withinTypos(s1, s2) == levenshteinDistance(s1, s2) <= MaxTypos

\* the constants s1, s2, s1Words and s2Words are bound to their values once
fuzzyMatch(a, b) ==
  IF a = <<>> \/ b = <<>> THEN FALSE
  ELSE \E s1 \in {trim(toLowerCase(a))}, s2 \in {trim(toLowerCase(b))} :
       \E s1Words \in {splitWs(s1)}, s2Words \in {splitWs(s2)} :
          IF s1 = s2 THEN TRUE
          ELSE IF Len(s1Words) = Len(s2Words) /\ (includes(s1, s2) \/ includes(s2, s1))
            THEN TRUE
          ELSE IF isWordPrefix(s1, s2, s1Words, s2Words)
            THEN TRUE
          ELSE IF Len(s1Words) = Len(s2Words) /\ withinTypos(s1, s2)
            THEN TRUE
          ELSE FALSE

(***************************************************************************)
(* stripRoadType (part_002:134-145)                                        *)
(***************************************************************************)
S_via == <<"v", "i", "a">>
S_viale == <<"v", "i", "a", "l", "e">>
S_piazza == <<"p", "i", "a", "z", "z", "a">>
S_corso == <<"c", "o", "r", "s", "o">>
S_largo == <<"l", "a", "r", "g", "o">>
S_vicolo == <<"v", "i", "c", "o", "l", "o">>
S_strada == <<"s", "t", "r", "a", "d", "a">>
S_piazzale == <<"p", "i", "a", "z", "z", "a", "l", "e">>

roadTypes ==
  <<S_via, S_viale, S_piazza, S_corso, S_largo, S_vicolo, S_strada, S_piazzale>>

\* the for-loop over roadTypes, from index k on
RECURSIVE stripLoop(_, _)
stripLoop(normalized, k) ==
  IF k > Len(roadTypes) THEN normalized
  ELSE IF startsWith(normalized, roadTypes[k] \o <<" ">>)
    THEN trim(substring(normalized, Len(roadTypes[k]) + 1))
  ELSE stripLoop(normalized, k + 1)

\* a faulty stripRoadType that compares without lower-casing
stripRoadTypeKeepsCase(road) ==
  IF road = <<>> THEN <<>>
  ELSE stripLoop(trim(road), 1)

stripRoadType(road) ==
  IF road = <<>> THEN <<>>
  ELSE CHOOSE stripped \in
         {stripLoop(normalized, 1) : normalized \in {toLowerCase(trim(road))}} : TRUE

(***************************************************************************)
(* parseAddress (part_002:424-531)                                         *)
(***************************************************************************)
\* roadTypes.includes(word.toLowerCase())
isRoadType(word) == \E k \in 1..Len(roadTypes) : roadTypes[k] = toLowerCase(word)

\* a faulty de-duplication that drops the first road type, not the second
dedupStreetDropsFirst(street) ==
  CHOOSE deduped \in
    {IF /\ Len(streetWords) > 2
        /\ isRoadType(streetWords[1])
        /\ isRoadType(streetWords[2])
       THEN joinSpace(Tail(streetWords))
     ELSE street : streetWords \in {splitWs(street)}} : TRUE

\* a faulty de-duplication that also applies to a street of two words
dedupStreetAnyLength(street) ==
  CHOOSE deduped \in
    {IF /\ Len(streetWords) >= 2
        /\ isRoadType(streetWords[1])
        /\ isRoadType(streetWords[2])
       THEN joinSpace(<<streetWords[1]>> \o SubSeq(streetWords, 3, Len(streetWords)))
     ELSE street : streetWords \in {splitWs(street)}} : TRUE

\* the street part after the removal of a second or duplicated road type
\* (lines 428-458); street is parts[0], already trimmed
dedupStreet(street) ==
  CHOOSE deduped \in
    {IF /\ Len(streetWords) > 2
        /\ isRoadType(streetWords[1])
        /\ isRoadType(streetWords[2])
       THEN joinSpace(<<streetWords[1]>> \o SubSeq(streetWords, 3, Len(streetWords)))
     ELSE IF /\ Len(streetWords) > 2
             /\ isRoadType(streetWords[1])
             /\ toLowerCase(streetWords[1]) = toLowerCase(streetWords[2])
       THEN joinSpace(Tail(streetWords))
     ELSE street : streetWords \in {splitWs(street)}} : TRUE

\* the length of an Italian postcode, \d{5}
PostcodeLen == 5

\* a faulty pattern without the word boundaries, /\d{5}/
postcodeAtUnbounded(s, i) ==
  /\ i + PostcodeLen - 1 <= Len(s)
  /\ \A k \in i..(i + PostcodeLen - 1) : IsDigit(s[k])

\* /\b\d{5}\b/ matches s at index i (1-based): five digits, no word
\* character right before or right after them
postcodeAt(s, i) ==
  /\ i + PostcodeLen - 1 <= Len(s)
  /\ \A k \in i..(i + PostcodeLen - 1) : IsDigit(s[k])
  /\ i = 1 \/ ~IsWordChar(s[i - 1])
  /\ i + PostcodeLen > Len(s) \/ ~IsWordChar(s[i + PostcodeLen])

\* postcodeRegex.test(part)
postcodeTest(part) == \E i \in 1..Len(part) : postcodeAt(part, i)

\* part.match(postcodeRegex)[0]: the leftmost match
postcodeMatch(part) ==
  LET i == CHOOSE i \in 1..Len(part) :
             postcodeAt(part, i) /\ \A j \in 1..(i - 1) : ~postcodeAt(part, j)
  IN SubSeq(part, i, i + PostcodeLen - 1)

\* the for-loop over parts that sets postcode (lines 461-469), from index k on
RECURSIVE postcodeScan(_, _)
postcodeScan(parts, k) ==
  IF k > Len(parts) THEN <<>>
  ELSE IF postcodeTest(parts[k]) THEN postcodeMatch(parts[k])
  ELSE postcodeScan(parts, k + 1)

\* a JavaScript || with '' as the right operand
orEmpty(parts, i) == IF i <= Len(parts) THEN parts[i] ELSE <<>>

\* x || y on strings
orElse(x, y) == IF Len(x) > 0 THEN x ELSE y

\* a faulty result object that uses the three-part template, with the last
\* part in its third slot, for every number of parts
parsePartsLastAsProvince(parts) ==
  [street |-> orEmpty(parts, 1), city |-> orEmpty(parts, 2),
   province |-> IF postcodeTest(parts[Len(parts)]) THEN <<>> ELSE parts[Len(parts)],
   county |-> IF postcodeTest(parts[Len(parts)]) THEN <<>> ELSE parts[Len(parts)],
   postcode |-> postcodeScan(parts, 1),
   country |-> <<>>]

\* The result object built from the parts (lines 460-530); a property the
\* branch does not set is the empty sequence.  The second `parts.length === 4`
\* and `parts.length === 3` branches (lines 502-518) can never be taken and
\* are left out.
parseParts(parts) ==
  LET postcode == postcodeScan(parts, 1)
      n == Len(parts)
      lastIsPostcode == postcodeTest(parts[n])
  IN IF n = 4 THEN
       [street |-> orEmpty(parts, 1), city |-> orEmpty(parts, 2),
        province |-> orEmpty(parts, 3), county |-> orEmpty(parts, 3),
        postcode |-> orElse(postcode, IF lastIsPostcode THEN parts[4] ELSE <<>>),
        country |-> <<>>]
     ELSE IF n = 3 THEN
       [street |-> orEmpty(parts, 1), city |-> orEmpty(parts, 2),
        province |-> IF lastIsPostcode THEN <<>> ELSE orEmpty(parts, 3),
        county |-> IF lastIsPostcode THEN <<>> ELSE orEmpty(parts, 3),
        postcode |-> orElse(postcode, IF lastIsPostcode THEN parts[3] ELSE <<>>),
        country |-> <<>>]
     ELSE IF n = 5 THEN
       [street |-> orEmpty(parts, 2), city |-> orEmpty(parts, 3),
        province |-> <<>>, county |-> orEmpty(parts, 4),
        postcode |-> orElse(postcode, IF lastIsPostcode THEN parts[5] ELSE <<>>),
        country |-> orEmpty(parts, 1)]
     ELSE
       [street |-> orEmpty(parts, 1), city |-> orEmpty(parts, 2),
        province |-> orEmpty(parts, 3), county |-> orEmpty(parts, 3),
        postcode |-> orElse(postcode, <<>>),
        country |-> <<>>]

\* address.split(','), each piece trimmed, then parts[0] de-duplicated, then
\* the result object; each stage is bound to its value once
parseAddress(addr) ==
  CHOOSE parsed \in
    {parseParts(parts) :
       parts \in {[trimmed EXCEPT ![1] = dedupStreet(trimmed[1])] :
         trimmed \in {[i \in 1..Len(split) |-> trim(split[i])] :
           split \in {splitComma(addr)}}}} : TRUE

(***************************************************************************)
(* checkKnownMismatches (part_002:611-663)                                 *)
(***************************************************************************)
S_firenze == <<"f", "i", "r", "e", "n", "z", "e">>
S_rome == <<"r", "o", "m", "e">>
S_roma == <<"r", "o", "m", "a">>
S_napoli == <<"n", "a", "p", "o", "l", "i">>
S_naples == <<"n", "a", "p", "l", "e", "s">>
S_torino == <<"t", "o", "r", "i", "n", "o">>
S_turin == <<"t", "u", "r", "i", "n">>
S_palermo == <<"p", "a", "l", "e", "r", "m", "o">>
S_catania == <<"c", "a", "t", "a", "n", "i", "a">>
S_milano == <<"m", "i", "l", "a", "n", "o">>
S_milan == <<"m", "i", "l", "a", "n">>
S_mi == <<"m", "i">>
S_rm == <<"r", "m">>
S_na == <<"n", "a">>
S_to == <<"t", "o">>
S_florence == <<"f", "l", "o", "r", "e", "n", "c", "e">>
S_fi == <<"f", "i">>
S_bologna == <<"b", "o", "l", "o", "g", "n", "a">>
S_bo == <<"b", "o">>
S_venezia == <<"v", "e", "n", "e", "z", "i", "a">>
S_venice == <<"v", "e", "n", "i", "c", "e">>
S_ve == <<"v", "e">>
S_it == <<"i", "t">>

\* the object `mismatches`: city, then the provinces it is never in
mismatches ==
  << <<S_firenze, <<S_milano, S_milan>>>>,
     <<S_rome, <<S_milano, S_milan>>>>,
     <<S_roma, <<S_milano, S_milan>>>>,
     <<S_napoli, <<S_milano, S_milan>>>>,
     <<S_naples, <<S_milano, S_milan>>>>,
     <<S_torino, <<S_roma, S_rome>>>>,
     <<S_turin, <<S_roma, S_rome>>>>,
     <<S_palermo, <<S_milano, S_milan, S_roma, S_rome>>>>,
     <<S_catania, <<S_milano, S_milan, S_roma, S_rome>>>> >>

\* the object `majorProvinces`: province, then its aliases, in key order
majorProvinces ==
  << <<S_milano, <<S_milan, S_mi>>>>,
     <<S_roma, <<S_rome, S_rm>>>>,
     <<S_napoli, <<S_naples, S_na>>>>,
     <<S_torino, <<S_turin, S_to>>>>,
     <<S_firenze, <<S_florence, S_fi>>>>,
     <<S_bologna, <<S_bo>>>>,
     <<S_venezia, <<S_venice, S_ve>>>> >>

\* Array.prototype.includes on an array of strings
listIncludes(list, s) == \E k \in 1..Len(list) : list[k] = s

\* the for-loop over Object.entries(majorProvinces), from entry k on
RECURSIVE majorProvinceLoop(_, _, _)
majorProvinceLoop(inputProvinceLower, geocodedProvinceLower, k) ==
  IF k > Len(majorProvinces) THEN FALSE
  ELSE LET province == majorProvinces[k][1]
           aliases == majorProvinces[k][2]
           isInSameProvince ==
             \/ \E a \in 1..Len(aliases) :
                  includes(geocodedProvinceLower, toLowerCase(aliases[a]))
             \/ includes(geocodedProvinceLower, province)
       IN IF includes(inputProvinceLower, province) /\ ~isInSameProvince
          THEN TRUE
          ELSE majorProvinceLoop(inputProvinceLower, geocodedProvinceLower, k + 1)

checkKnownMismatches(geocodedCity, inputProvince, geocodedProvince) ==
  LET cityLower == toLowerCase(geocodedCity)
      provinceLower == toLowerCase(inputProvince)
  IN IF \E k \in 1..Len(mismatches) : mismatches[k][1] = cityLower
     THEN LET k == CHOOSE k \in 1..Len(mismatches) : mismatches[k][1] = cityLower
          IN listIncludes(mismatches[k][2], provinceLower)
     ELSE majorProvinceLoop(toLowerCase(inputProvince), toLowerCase(geocodedProvince), 1)

(***************************************************************************)
(* A candidate is one entry of data.results: its components bag and its    *)
(* confidence.  Every candidate has a components bag.                      *)
(***************************************************************************)
\* a || b || c || ... on strings: the first non-empty one, else ''
RECURSIVE firstNonEmpty(_)
firstNonEmpty(list) ==
  IF Len(list) = 0 THEN <<>>
  ELSE IF Len(list[1]) > 0 THEN list[1]
  ELSE firstNonEmpty(Tail(list))

truthy(s) == Len(s) > 0

(***************************************************************************)
(* validateAddressMatch (part_002:536-606): "true", "false", or "throw"    *)
(* for the postcode-mismatch error it raises.                              *)
(***************************************************************************)
\* a faulty province test that does not look at the region
provinceMatchesCountyOnly(geocodedProvince, geocodedRegion, inputProvince) ==
  fuzzyMatch(geocodedProvince, inputProvince)

\* provinceMatch (lines 556-558): the county or the region
provinceMatches(geocodedProvince, geocodedRegion, inputProvince) ==
  \/ fuzzyMatch(geocodedProvince, inputProvince)
  \/ fuzzyMatch(geocodedRegion, inputProvince)

\* a faulty ending that rejects the registered mismatches only
afterKnownMismatchOnly(knownMismatches) ==
  IF knownMismatches THEN "false" ELSE "true"

\* lines 566-569, given what checkKnownMismatches returned: false either way
afterProvinceMismatch(knownMismatches) ==
  IF knownMismatches THEN "false" ELSE "false"

\* the method, given what its call of checkKnownMismatches (line 561) returns
validateAddressMatchGiven(components, addressParts, knownMismatches) ==
  IF components.country_code # S_it THEN "false"
  ELSE LET geocodedCity ==
             firstNonEmpty(<<components.city, components.town, components.village>>)
           geocodedProvince == components.county
           geocodedRegion ==
             firstNonEmpty(<<components.state, components.state_district>>)
           geocodedPostcode == components.postcode
           cityMatch == fuzzyMatch(geocodedCity, addressParts.city)
       IN IF ~cityMatch THEN "false"
          ELSE IF /\ truthy(addressParts.province)
                  /\ ~provinceMatches(geocodedProvince, geocodedRegion,
                                      addressParts.province)
            THEN afterProvinceMismatch(knownMismatches)
          ELSE IF /\ truthy(addressParts.postcode)
                  /\ truthy(geocodedPostcode)
                  /\ geocodedPostcode # addressParts.postcode
            THEN "throw"
          ELSE "true"

validateAddressMatch(components, addressParts) ==
  validateAddressMatchGiven(components, addressParts,
    checkKnownMismatches(
      firstNonEmpty(<<components.city, components.town, components.village>>),
      addressParts.province, components.county))

(***************************************************************************)
(* findBestResult (part_002:171-419).  The outcome names the returned      *)
(* candidate by its index in results; a thrown error is its message, held  *)
(* as the template used and what was put into it.                          *)
(***************************************************************************)
Returned(i) ==
  [kind |-> "return", index |-> i, tag |-> "", message |-> "", detail |-> "",
   suggestion |-> <<>>, postcodeHint |-> FALSE]

ReturnedNull ==
  [kind |-> "null", index |-> 0, tag |-> "", message |-> "", detail |-> "",
   suggestion |-> <<>>, postcodeHint |-> FALSE]

\* new Error(`VALIDATION_ERROR: ...`)
Thrown(message, detail, suggestion, postcodeHint) ==
  [kind |-> "throw", index |-> 0, tag |-> "VALIDATION_ERROR:",
   message |-> message, detail |-> detail,
   suggestion |-> suggestion, postcodeHint |-> postcodeHint]

\* Array.prototype.find, given the indices hits that satisfy the test in
\* list order: the first of them, 0 for undefined
findIndexIn(hits) == IF Len(hits) > 0 THEN hits[1] ELSE 0

\* the primary confidence cut-off and the last-resort one
MinConfidence == 9
FallbackConfidence == 8

\* a faulty strict match that is the fuzzy match alone
cityMatchLoose(geoName, inputName) == fuzzyMatch(geoName, inputName)

\* cityMatchStrict (lines 207-220); both branches taken when the geocoded
\* name has more words return false
cityMatchStrict(geoName, inputName) ==
  IF ~truthy(geoName) \/ ~truthy(inputName) THEN FALSE
  ELSE LET geoWords == splitWs(trim(toLowerCase(geoName)))
           inputWords == splitWs(trim(toLowerCase(inputName)))
       IN IF Len(geoWords) > Len(inputWords) THEN FALSE
          ELSE fuzzyMatch(geoName, inputName)

\* a faulty cut-off that spares the candidates of another country
belowCutoffItalianOnly(result) ==
  /\ result.confidence < MinConfidence
  /\ ~(truthy(result.country_code) /\ toLowerCase(result.country_code) # S_it)

\* a faulty cut-off at the last-resort confidence
belowLastResort(result) == result.confidence < FallbackConfidence

\* result.confidence < 9 (line 283), tested before the country code is read
belowCutoff(result) == result.confidence < MinConfidence

\* a faulty catch block that swallows the error
caughtErrorDropped(message) == <<>>

\* the catch block of the loop body (lines 390-393): the message of the
\* error validateAddressMatch threw is pushed as one more diagnostic
caughtError(message) == <<message>>

\* One pass of the scoring loop body (lines 283-396) for one result:
\* whether it is valid, its score, and the diagnostics it pushes, given what
\* checkKnownMismatches returns when it is called.
scoreResultGiven(result, addressParts, knownMismatches) ==
  LET countryCode == result.country_code
      geocodedCity == firstNonEmpty(<<result.city, result.town, result.village>>)
      geocodedPostcode == result.postcode
      geocodedCounty == result.county
      inputPostcode == addressParts.postcode
      inputCounty == addressParts.county
      Invalid(errors) == [valid |-> FALSE, score |-> 0, errors |-> errors]
      Valid(matchScore) ==
        [valid |-> TRUE, score |-> matchScore + result.confidence, errors |-> <<>>]
      One(b) == IF b THEN 1 ELSE 0
  IN IF belowCutoff(result) THEN Invalid(<<"Low confidence">>)
     ELSE IF truthy(countryCode) /\ toLowerCase(countryCode) # S_it THEN
       LET cityChecked == truthy(geocodedCity) /\ truthy(addressParts.city)
           postcodeChecked == truthy(inputPostcode) /\ truthy(geocodedPostcode)
           countyChecked == truthy(inputCounty) /\ truthy(geocodedCounty)
       IN IF cityChecked /\ ~fuzzyMatch(geocodedCity, addressParts.city)
            THEN Invalid(<<"City mismatch">>)
          ELSE IF /\ postcodeChecked
                  /\ toLowerCase(geocodedPostcode) # toLowerCase(inputPostcode)
            THEN Invalid(<<"Postcode mismatch">>)
          ELSE IF countyChecked /\ ~fuzzyMatch(geocodedCounty, inputCounty)
            THEN Invalid(<<"County mismatch">>)
          ELSE Valid(One(cityChecked) + One(postcodeChecked) + One(countyChecked))
     ELSE
       LET validated == validateAddressMatchGiven(result, addressParts, knownMismatches)
           geocodedProvince == result.county
           cityError ==
             IF /\ truthy(geocodedCity)
                /\ truthy(addressParts.city)
                /\ ~fuzzyMatch(geocodedCity, addressParts.city)
             THEN <<"City mismatch">> ELSE <<>>
           provinceError ==
             IF /\ truthy(addressParts.province)
                /\ truthy(geocodedProvince)
                /\ ~fuzzyMatch(geocodedProvince, addressParts.province)
             THEN IF knownMismatches
                  THEN <<"Invalid geographical combination">>
                  ELSE <<"Province mismatch">>
             ELSE <<>>
       IN IF validated = "throw"
            THEN Invalid(caughtError("VALIDATION_ERROR: Postcode mismatch"))
          ELSE IF validated = "true"
            THEN Valid(One(fuzzyMatch(geocodedCity, addressParts.city))
                       + One(truthy(addressParts.province)
                             /\ fuzzyMatch(geocodedProvince, addressParts.province))
                       + One(/\ truthy(addressParts.postcode)
                             /\ truthy(result.postcode)
                             /\ result.postcode = addressParts.postcode))
          ELSE Invalid(cityError \o provinceError)

\* the loop body, with the value of checkKnownMismatches (lines 561, 375:
\* the same arguments at both calls) computed from the table
scoreResult(result, addressParts) ==
  scoreResultGiven(result, addressParts,
    checkKnownMismatches(firstNonEmpty(<<result.city, result.town, result.village>>),
                         addressParts.province, result.county))

\* a faulty insertion that puts an entry before the entries of its own score
RECURSIVE insertByScoreUnstable(_, _)
insertByScoreUnstable(sorted, entry) ==
  IF Len(sorted) = 0 THEN <<entry>>
  ELSE IF sorted[1].score > entry.score
    THEN <<sorted[1]>> \o insertByScoreUnstable(Tail(sorted), entry)
  ELSE <<entry>> \o sorted

\* validResults.sort((a, b) => b.score - a.score): a stable sort, so an
\* entry goes behind every earlier entry whose score is not lower
RECURSIVE insertByScore(_, _)
insertByScore(sorted, entry) ==
  IF Len(sorted) = 0 THEN <<entry>>
  ELSE IF sorted[1].score >= entry.score
    THEN <<sorted[1]>> \o insertByScore(Tail(sorted), entry)
  ELSE <<entry>> \o sorted

RECURSIVE sortByScore(_)
sortByScore(entries) ==
  IF Len(entries) = 0 THEN <<>>
  ELSE insertByScore(sortByScore(SubSeq(entries, 1, Len(entries) - 1)),
                     entries[Len(entries)])

\* the for-loop over results (lines 282-397), from result k on
RECURSIVE scoringLoop(_, _, _, _, _)
scoringLoop(rs, addressParts, k, validResults, validationErrors) ==
  IF k > Len(rs)
  THEN [validResults |-> validResults, validationErrors |-> validationErrors]
  ELSE LET scored == scoreResult(rs[k], addressParts)
       IN scoringLoop(rs, addressParts, k + 1,
            IF scored.valid
            THEN Append(validResults, [result |-> k, score |-> scored.score])
            ELSE validResults,
            validationErrors \o scored.errors)

\* a faulty fallback that scores the candidates with a road or a square only
scoringFallbackOverFiltered(rs, addressParts) ==
  LET kept == SelectSeq([i \in 1..Len(rs) |-> i],
                        LAMBDA i : truthy(rs[i].road) \/ truthy(rs[i].square))
      loop == scoringLoop([k \in 1..Len(kept) |-> rs[kept[k]]], addressParts,
                          1, <<>>, <<>>)
  IN IF Len(loop.validResults) > 0
       THEN Returned(kept[sortByScore(loop.validResults)[1].result])
     ELSE IF Len(loop.validationErrors) > 0
       THEN Thrown("Diagnostic", loop.validationErrors[1], <<>>, FALSE)
     ELSE ReturnedNull

\* a faulty fallback that throws the last diagnostic collected
scoringFallbackLastDiagnostic(rs, addressParts) ==
  LET loop == scoringLoop(rs, addressParts, 1, <<>>, <<>>)
      highConfidenceResults ==
        SelectSeq([i \in 1..Len(rs) |-> i],
                  LAMBDA i : rs[i].confidence >= FallbackConfidence)
  IN IF Len(loop.validResults) > 0
       THEN Returned(sortByScore(loop.validResults)[1].result)
     ELSE IF Len(loop.validationErrors) > 0
       THEN Thrown("Diagnostic", loop.validationErrors[Len(loop.validationErrors)],
                   <<>>, FALSE)
     ELSE IF Len(highConfidenceResults) > 0
       THEN Returned(highConfidenceResults[1])
     ELSE ReturnedNull

\* a faulty fallback that does not throw the diagnostics it collected
scoringFallbackNoDiagnostic(rs, addressParts) ==
  LET loop == scoringLoop(rs, addressParts, 1, <<>>, <<>>)
      highConfidenceResults ==
        SelectSeq([i \in 1..Len(rs) |-> i],
                  LAMBDA i : rs[i].confidence >= FallbackConfidence)
  IN IF Len(loop.validResults) > 0
       THEN Returned(sortByScore(loop.validResults)[1].result)
     ELSE IF Len(highConfidenceResults) > 0
       THEN Returned(highConfidenceResults[1])
     ELSE ReturnedNull

\* lines 276-418: what follows the road/square branches
scoringFallback(rs, addressParts) ==
  LET loop == scoringLoop(rs, addressParts, 1, <<>>, <<>>)
      highConfidenceResults ==
        SelectSeq([i \in 1..Len(rs) |-> i],
                  LAMBDA i : rs[i].confidence >= FallbackConfidence)
  IN IF Len(loop.validResults) > 0
       THEN Returned(sortByScore(loop.validResults)[1].result)
     ELSE IF Len(loop.validationErrors) > 0
       THEN Thrown("Diagnostic", loop.validationErrors[1], <<>>, FALSE)
     ELSE IF Len(highConfidenceResults) > 0
       THEN Returned(highConfidenceResults[1])
     ELSE ReturnedNull

\* a faulty first test that takes any road for a match
matchesPostcodeAndAnyRoad(r, addressParts) ==
  /\ truthy(r.postcode)
  /\ r.postcode = addressParts.postcode
  /\ truthy(r.road)

\* the test of the first find (lines 184-190): postcode and road
matchesPostcodeAndRoad(r, addressParts) ==
  /\ truthy(r.postcode)
  /\ r.postcode = addressParts.postcode
  /\ truthy(r.road)
  /\ fuzzyMatch(r.road, addressParts.street)

\* a faulty second test that takes any postcode for a match
matchesAnyPostcode(r, addressParts) == truthy(r.postcode)

\* the test of the second find (lines 195-196): postcode only
matchesPostcode(r, addressParts) ==
  truthy(r.postcode) /\ r.postcode = addressParts.postcode

\* the indices of the results that have a road or a square (lines 176-178)
filterRoadOrSquare(rs) ==
  SelectSeq([i \in 1..Len(rs) |-> i],
            LAMBDA i : truthy(rs[i].road) \/ truthy(rs[i].square))

\* a faulty suggestion that looks at the city only
suggestedCityOnly(c) == c.city

\* c.city || c.town || c.village || c.hamlet || '' (line 244)
suggestedCityOf(c) == firstNonEmpty(<<c.city, c.town, c.village, c.hamlet>>)

\* a faulty test that never takes the postcode branch
hasPostcodeNever(addressParts) == FALSE

\* if (addressParts.postcode) (line 180)
hasPostcode(addressParts) == truthy(addressParts.postcode)

\* lines 174-418, given the parsed address
findBestResultFor(rs, addressParts) ==
  LET filteredResults == filterRoadOrSquare(rs)
      inputStreetStripped == stripRoadType(addressParts.street)
      postcodeAndRoad(i) == matchesPostcodeAndRoad(rs[i], addressParts)
      postcodeOnly(i) == matchesPostcode(rs[i], addressParts)
      roadMatches(i) ==
        /\ truthy(rs[i].road)
        /\ fuzzyMatch(stripRoadType(rs[i].road), inputStreetStripped)
      roadAndCity(i) ==
        /\ roadMatches(i)
        /\ \/ truthy(rs[i].city) /\ cityMatchStrict(rs[i].city, addressParts.city)
           \/ truthy(rs[i].town) /\ cityMatchStrict(rs[i].town, addressParts.city)
           \/ truthy(rs[i].village) /\ cityMatchStrict(rs[i].village, addressParts.city)
           \/ truthy(rs[i].hamlet) /\ cityMatchStrict(rs[i].hamlet, addressParts.city)
      exactPostcodeAndRoad ==
        IF truthy(addressParts.street) THEN findIndexIn(SelectSeq(filteredResults, postcodeAndRoad))
        ELSE 0
      exactPostcode == findIndexIn(SelectSeq(filteredResults, postcodeOnly))
      roadAndCityMatch == findIndexIn(SelectSeq(filteredResults, roadAndCity))
      roadMatch == findIndexIn(SelectSeq(filteredResults, roadMatches))
      suggestedCity ==
        IF roadMatch = 0 THEN <<>>
        ELSE suggestedCityOf(rs[roadMatch])
      suggestion ==
        IF /\ truthy(suggestedCity)
           /\ toLowerCase(suggestedCity) # toLowerCase(addressParts.city)
        THEN suggestedCity ELSE <<>>
  IN IF Len(rs) > 0 /\ hasPostcode(addressParts) THEN
       IF exactPostcodeAndRoad # 0 THEN Returned(exactPostcodeAndRoad)
       ELSE IF exactPostcode # 0 THEN Returned(exactPostcode)
       ELSE Thrown("No result found with postcode", "", <<>>, FALSE)
     ELSE IF Len(rs) > 0 /\ truthy(addressParts.street) THEN
       IF truthy(addressParts.city) THEN
         IF roadAndCityMatch # 0 THEN Returned(roadAndCityMatch)
         ELSE Thrown("No result found with street name and city", "", suggestion,
                     ~truthy(addressParts.postcode))
       ELSE IF roadMatch # 0 THEN Returned(roadMatch)
       ELSE Thrown("No result found with street name", "", <<>>, FALSE)
     ELSE IF Len(rs) > 0 /\ Len(filteredResults) > 0 THEN Returned(filteredResults[1])
     ELSE scoringFallback(rs, addressParts)

\* a faulty call that sorts the caller's list itself by confidence, descending
resultsSortedInPlace(rs, originalAddress) ==
  LET sorted == sortByScore([i \in 1..Len(rs) |->
                               [result |-> rs[i], score |-> rs[i].confidence]])
  IN [i \in 1..Len(rs) |-> sorted[i].result]

\* The caller's list as the call leaves it.  filter (lines 176, 234, 412)
\* builds new arrays, the sort (line 401) is of the local validResults, and
\* no statement assigns to results or to a field of a candidate.
resultsAfter(rs, originalAddress) == rs

\* addressParts is bound to the parsed address once (line 173)
findBestResult(rs, originalAddress) ==
  CHOOSE outcome \in
    {findBestResultFor(rs, addressParts) :
       addressParts \in {parseAddress(originalAddress)}} : TRUE

(***************************************************************************)
(* Calls of the string helpers.  The service keeps no state between calls: *)
(* a call reads its arguments and leaves its result.                       *)
(***************************************************************************)
NoRet == "none"

S_Monterotondo == <<"M", "o", "n", "t", "e", "r", "o", "t", "o", "n", "d", "o">>
S_MonterotondoMarittimo == <<"M", "o", "n", "t", "e", "r", "o", "t", "o", "n", "d", "o", " ", "M", "a", "r", "i", "t", "t", "i", "m", "o">>
S_ViaRoma == <<"V", "i", "a", " ", "R", "o", "m", "a">>
S_viaromaPadded == <<" ", "v", "i", "a", " ", "r", "o", "m", "a", " ">>
S_ropa == <<"r", "o", "p", "a">>
S_romania == <<"r", "o", "m", "a", "n", "i", "a">>
S_Roma == <<"R", "o", "m", "a">>
S_Via == <<"V", "i", "a">>
S_VIALE == <<"V", "I", "A", "L", "E">>
S_vi == <<"v", "i">>
S_viaa == <<"v", "i", "a", "a">>

\* all strings over alphabet of length 0..n
StringsUpTo(alphabet, n) == UNION {[1..k -> alphabet] : k \in 0..n}

RECURSIVE Spaces(_)
Spaces(n) == IF n = 0 THEN <<>> ELSE <<" ">> \o Spaces(n - 1)

FuzzyAlphabet == {"a", "A", "b", " "}
FuzzyNamed ==
  {S_Monterotondo, S_MonterotondoMarittimo, S_ViaRoma, S_viaromaPadded, S_roma, S_romania}
FuzzyInputs1 == StringsUpTo(FuzzyAlphabet, MaxLen1) \cup FuzzyNamed
FuzzyInputs2 == StringsUpTo(FuzzyAlphabet, MaxLen2) \cup FuzzyNamed

InitFuzzy ==
  /\ str1 \in FuzzyInputs1
  /\ str2 \in FuzzyInputs2
  /\ address = <<>>
  /\ results = <<>>
  /\ hasResults = TRUE
  /\ op = "none"
  /\ ret = NoRet
  /\ FormConstructed

FuzzyMatchCall ==
  /\ op' = "fuzzyMatch"
  /\ ret' = fuzzyMatch(str1, str2)
  /\ UNCHANGED <<str1, str2, address, results, hasResults, component, app, inFlight, requests, outputs>>

NextFuzzy == FuzzyMatchCall

SpecFuzzy == InitFuzzy /\ [][NextFuzzy]_vars

LevAlphabet == {"a", "b"}
LevInputs == StringsUpTo(LevAlphabet, MaxLevLen) \cup {S_roma, S_ropa}

InitLev ==
  /\ str1 \in LevInputs
  /\ str2 \in LevInputs
  /\ address = <<>>
  /\ results = <<>>
  /\ hasResults = TRUE
  /\ op = "none"
  /\ ret = NoRet
  /\ FormConstructed

LevenshteinCall ==
  /\ op' = "levenshteinDistance"
  /\ ret' = levenshteinDistance(str1, str2)
  /\ UNCHANGED <<str1, str2, address, results, hasResults, component, app, inFlight, requests, outputs>>

NextLev == LevenshteinCall

SpecLev == InitLev /\ [][NextLev]_vars

\* road strings: padding, a first word, a separator, a rest, padding
RoadFirstWords ==
  {roadTypes[k] : k \in 1..Len(roadTypes)} \cup {S_Via, S_VIALE, S_vi, S_viaa, S_Roma, <<>>}
RoadSeparators == {Spaces(n) : n \in 0..MaxSep} \cup {<<"\t">>}
RoadRests == {<<>>, S_roma, S_Roma, S_ViaRoma}
RoadInputs ==
  {Spaces(p) \o w \o sep \o rest \o Spaces(q) :
     p \in 0..MaxPad, q \in 0..MaxPad, w \in RoadFirstWords,
     sep \in RoadSeparators, rest \in RoadRests}

InitStrip ==
  /\ str1 \in RoadInputs
  /\ str2 = <<>>
  /\ address = <<>>
  /\ results = <<>>
  /\ hasResults = TRUE
  /\ op = "none"
  /\ ret = NoRet
  /\ FormConstructed

StripRoadTypeCall ==
  /\ op' = "stripRoadType"
  /\ ret' = stripRoadType(str1)
  /\ UNCHANGED <<str1, str2, address, results, hasResults, component, app, inFlight, requests, outputs>>

NextStrip == StripRoadTypeCall

SpecStrip == InitStrip /\ [][NextStrip]_vars

S_ViaVialeAntonioGramsci == <<"V", "i", "a", " ", "V", "i", "a", "l", "e", " ", "A", "n", "t", "o", "n", "i", "o", " ", "G", "r", "a", "m", "s", "c", "i">>
S_ViaAntonioGramsci == <<"V", "i", "a", " ", "A", "n", "t", "o", "n", "i", "o", " ", "G", "r", "a", "m", "s", "c", "i">>
S_ViaViaRoma == <<"V", "i", "a", " ", "V", "i", "a", " ", "R", "o", "m", "a">>
S_ViaViale == <<"V", "i", "a", " ", "V", "i", "a", "l", "e">>
S_ViaRoma12345 == <<"V", "i", "a", " ", "R", "o", "m", "a", " ", "1", "2", "3", "4", "5">>
S_Firenze == <<"F", "i", "r", "e", "n", "z", "e">>
S_Italia == <<"I", "t", "a", "l", "i", "a">>
S_FI == <<"F", "I">>
S_50100 == <<"5", "0", "1", "0", "0">>
S_Roma00100 == <<"R", "o", "m", "a", " ", "0", "0", "1", "0", "0">>
S_123456 == <<"1", "2", "3", "4", "5", "6">>
S_12345 == <<"1", "2", "3", "4", "5">>
S_00100 == <<"0", "0", "1", "0", "0">>

\* the segments joined by a comma and a space
RECURSIVE JoinComma(_)
JoinComma(segs) ==
  IF Len(segs) = 1 THEN segs[1]
  ELSE segs[1] \o <<",", " ">> \o JoinComma(Tail(segs))

StreetSegments ==
  {<<>>, S_Roma, S_ViaRoma, S_ViaVialeAntonioGramsci, S_ViaViaRoma, S_ViaViale,
   S_ViaRoma12345}
OtherSegments == {<<>>, S_Firenze, S_FI \o <<" ">>, S_50100, S_Roma00100, S_123456}

\* addresses of 1..MaxSegs comma-separated segments
ParseInputs ==
  {JoinComma(<<st>> \o rest) :
     st \in StreetSegments, rest \in StringsUpTo(OtherSegments, MaxSegs - 1)}
  \cup {JoinComma(<<S_ViaVialeAntonioGramsci, S_Firenze, S_FI, S_50100>>),
        JoinComma(<<S_Italia, S_ViaVialeAntonioGramsci, S_Firenze, S_FI, S_50100>>),
        JoinComma(<<S_Italia, S_ViaViale, S_Firenze, S_Firenze, S_FI>>)}

InitParse ==
  /\ str1 = <<>>
  /\ str2 = <<>>
  /\ address \in ParseInputs
  /\ results = <<>>
  /\ hasResults = TRUE
  /\ op = "none"
  /\ ret = NoRet
  /\ FormConstructed

ParseAddressCall ==
  /\ op' = "parseAddress"
  /\ ret' = parseAddress(address)
  /\ UNCHANGED <<str1, str2, address, results, hasResults, component, app, inFlight, requests, outputs>>

NextParse == ParseAddressCall

SpecParse == InitParse /\ [][NextParse]_vars

(***************************************************************************)
(* Calls of findBestResult: geocode hands it the provider's non-empty      *)
(* result list and the address as typed (part_002:78-81).                  *)
(***************************************************************************)
S_Milano == <<"M", "i", "l", "a", "n", "o">>
S_20100 == <<"2", "0", "1", "0", "0">>
S_ViaDante == <<"V", "i", "a", " ", "D", "a", "n", "t", "e">>
S_PiazzaDuomo == <<"P", "i", "a", "z", "z", "a", " ", "D", "u", "o", "m", "o">>
S_fr == <<"f", "r">>

\* a candidate with the given components, every other component absent
Candidate(road, square, city, town, county, postcode, countryCode, confidence) ==
  [road |-> road, square |-> square, city |-> city, town |-> town,
   village |-> <<>>, hamlet |-> <<>>, county |-> county, state |-> <<>>,
   state_district |-> <<>>, postcode |-> postcode, country_code |-> countryCode,
   confidence |-> confidence]

\* candidates with a road or a square
RoadCandidates ==
  {Candidate(S_ViaRoma, <<>>, S_Firenze, <<>>, S_Firenze, S_50100, S_it, 8),
   Candidate(S_ViaRoma, <<>>, S_Milano, <<>>, S_Milano, S_20100, S_it, 9),
   Candidate(S_ViaDante, <<>>, S_Firenze, <<>>, S_Firenze, S_50100, S_it, 9),
   Candidate(S_ViaRoma, <<>>, S_Firenze, <<>>, S_Firenze, <<>>, S_it, 9),
   Candidate(<<>>, S_PiazzaDuomo, S_Firenze, <<>>, S_Firenze, S_50100, S_it, 9),
   Candidate(S_ViaRoma, <<>>, <<>>, S_MonterotondoMarittimo, <<>>, <<>>, S_it, 9),
   Candidate(S_ViaRoma, <<>>, S_Monterotondo, <<>>, <<>>, <<>>, S_it, 9)}

\* candidates with neither: places, not addresses
PlaceCandidates ==
  {Candidate(<<>>, <<>>, S_Firenze, <<>>, S_Firenze, S_50100, S_it, 10),
   Candidate(<<>>, <<>>, S_Firenze, <<>>, S_Firenze, <<>>, S_it, 9),
   Candidate(<<>>, <<>>, S_Firenze, <<>>, <<>>, <<>>, S_it, 9),
   Candidate(<<>>, <<>>, S_Firenze, <<>>, <<>>, <<>>, S_it, 8),
   Candidate(<<>>, <<>>, S_Milano, <<>>, S_Milano, <<>>, S_it, 9),
   Candidate(<<>>, <<>>, S_Firenze, <<>>, S_Firenze, <<>>, S_fr, 8),
   Candidate(<<>>, <<>>, S_Firenze, <<>>, S_Firenze, <<>>, S_fr, 10),
   Candidate(<<>>, <<>>, S_Milano, <<>>, S_Milano, <<>>, S_fr, 9),
   Candidate(<<>>, <<>>, S_Firenze, <<>>, <<>>, <<>>, <<>>, 9),
   Candidate(<<>>, <<>>, S_Milano, <<>>, <<>>, <<>>, S_it, 0)}

CandidatePool == RoadCandidates \cup PlaceCandidates

\* the addresses typed: street, city, then province and/or postcode
SelectAddresses ==
  {JoinComma(<<S_ViaRoma, S_Firenze, S_50100>>),
   JoinComma(<<S_ViaRoma, S_Firenze, S_FI, S_50100>>),
   JoinComma(<<<<>>, S_Firenze, S_50100>>),
   JoinComma(<<S_ViaRoma, S_Firenze>>),
   JoinComma(<<S_ViaRoma, S_Monterotondo>>),
   S_ViaRoma,
   JoinComma(<<S_ViaRoma, S_Firenze, S_Milano>>),
   JoinComma(<<<<>>, S_Firenze, S_Milano>>),
   JoinComma(<<<<>>, S_Firenze, S_Firenze>>),
   JoinComma(<<<<>>, S_Firenze>>)}

Init ==
  /\ str1 = <<>>
  /\ str2 = <<>>
  /\ address \in SelectAddresses
  /\ results \in UNION {[1..n -> CandidatePool] : n \in 1..MaxResults}
  /\ hasResults = TRUE
  /\ op = "none"
  /\ ret = NoRet
  /\ FormConstructed

FindBestResultCall ==
  /\ op' = "findBestResult"
  /\ ret' = findBestResult(results, address)
  /\ results' = resultsAfter(results, address)
  /\ UNCHANGED <<str1, str2, address, hasResults, component, app, inFlight, requests, outputs>>

Next == FindBestResultCall

Spec == Init /\ [][Next]_vars

(***************************************************************************)
(* Reference notions the properties are stated with.  They are written     *)
(* from the definitions of the notions, not from the code.                 *)
(***************************************************************************)
\* s without its leading and trailing whitespace
RefTrim(s) ==
  LET inked == {i \in 1..Len(s) : ~IsSpace(s[i])}
  IN IF inked = {} THEN <<>>
     ELSE SubSeq(s, CHOOSE i \in inked : \A j \in inked : i <= j,
                    CHOOSE i \in inked : \A j \in inked : i >= j)

\* s lower-cased and trimmed
RefNorm(s) == RefTrim([i \in 1..Len(s) |-> LowerChar(s[i])])

\* the number of whitespace-separated pieces of a trimmed string: one more
\* than its whitespace runs (the empty string is one empty piece, as for split)
RefWordCount(s) ==
  1 + Cardinality({i \in 1..(Len(s) - 1) : IsSpace(s[i]) /\ ~IsSpace(s[i + 1])})

\* sub occurs in s as a contiguous substring
RefContains(s, sub) ==
  \E i \in 1..(Len(s) + 1) : \E j \in (i - 1)..Len(s) : SubSeq(s, i, j) = sub

\* s is p, then a space, then more text
RefWordPrefix(s, p) ==
  /\ Len(s) > Len(p) + 1
  /\ SubSeq(s, 1, Len(p)) = p
  /\ s[Len(p) + 1] = " "

\* a can be turned into b with at most k insertions, deletions, substitutions
RECURSIVE RefWithin(_, _, _)
RefWithin(a, b, k) ==
  IF Len(a) = 0 THEN Len(b) <= k
  ELSE IF Len(b) = 0 THEN Len(a) <= k
  ELSE IF Head(a) = Head(b) THEN RefWithin(Tail(a), Tail(b), k)
  ELSE /\ k > 0
       /\ \/ RefWithin(Tail(a), b, k - 1)
          \/ RefWithin(a, Tail(b), k - 1)
          \/ RefWithin(Tail(a), Tail(b), k - 1)

\* the edit distance of a and b is exactly k
RefDistanceIs(a, b, k) ==
  RefWithin(a, b, k) /\ (k = 0 \/ ~RefWithin(a, b, k - 1))

\* the four rules of the fuzzy match on normalised strings
RefFuzzy(a, b) ==
  \/ a = b
  \/ RefWordCount(a) = RefWordCount(b) /\ (RefContains(a, b) \/ RefContains(b, a))
  \/ /\ RefWordPrefix(a, b) \/ RefWordPrefix(b, a)
     /\ RefWordCount(a) > 1 \/ RefWordCount(b) > 1
  \/ RefWordCount(a) = RefWordCount(b) /\ RefWithin(a, b, 2)

\* every string one single-character edit away from s, new characters from sigma
RefOneEdit(s, sigma) ==
  {SubSeq(s, 1, i - 1) \o SubSeq(s, i + 1, Len(s)) : i \in 1..Len(s)}
  \cup {SubSeq(s, 1, i - 1) \o <<c>> \o SubSeq(s, i + 1, Len(s)) :
          i \in 1..Len(s), c \in sigma}
  \cup {SubSeq(s, 1, i) \o <<c>> \o SubSeq(s, i + 1, Len(s)) :
          i \in 0..Len(s), c \in sigma}

\* the least number of single-character edits leading from a string of reach
\* to b, reach being what k edits give; no string longer than maxLen is needed
RECURSIVE RefEditsFrom(_, _, _, _, _)
RefEditsFrom(reach, b, k, sigma, maxLen) ==
  IF \E s \in reach : s = b THEN k
  ELSE RefEditsFrom(
         reach \cup {t \in UNION {RefOneEdit(s, sigma) : s \in reach} : Len(t) <= maxLen},
         b, k + 1, sigma, maxLen)

RefMinEdits(a, b) ==
  RefEditsFrom({a}, b, 0,
               {a[i] : i \in 1..Len(a)} \cup {b[i] : i \in 1..Len(b)},
               IF Len(a) >= Len(b) THEN Len(a) ELSE Len(b))

(***************************************************************************)
(* Properties of the string helpers.                                       *)
(***************************************************************************)
FuzzyCalled == op = "fuzzyMatch"

MonterotondoPair ==
  \/ str1 = S_Monterotondo /\ str2 = S_MonterotondoMarittimo
  \/ str1 = S_MonterotondoMarittimo /\ str2 = S_Monterotondo

\* C4 as stated: fuzzyMatch("Monterotondo", "Monterotondo Marittimo") is
\* false, in either argument order.
C4_Original == FuzzyCalled /\ MonterotondoPair => ret = FALSE

\* C4 amended: fuzzyMatch("Monterotondo", "Monterotondo Marittimo") is true
\* in either argument order: the longer name is the shorter one followed by a
\* space and more text, and it has more than one word.
C4_MonterotondoMatches == FuzzyCalled /\ MonterotondoPair => ret = TRUE

C4_Witness ==
  FuzzyCalled /\ str1 = S_Monterotondo /\ str2 = S_MonterotondoMarittimo /\ ret = TRUE

\* C5: for non-empty strings fuzzyMatch equals the four-rule reference
\* predicate on the lower-cased, trimmed inputs.
C5_FuzzyIsReference ==
  FuzzyCalled /\ Len(str1) > 0 /\ Len(str2) > 0
    => ret = RefFuzzy(RefNorm(str1), RefNorm(str2))

C5_Witness ==
  FuzzyCalled /\ str1 = S_ViaRoma /\ str2 = S_viaromaPadded /\ ret = TRUE

SameWordCount ==
  /\ Len(str1) > 0
  /\ Len(str2) > 0
  /\ RefWordCount(RefNorm(str1)) = RefWordCount(RefNorm(str2))

EitherContains ==
  \/ RefContains(RefNorm(str1), RefNorm(str2))
  \/ RefContains(RefNorm(str2), RefNorm(str1))

\* C6 as stated: with equal word counts, distance 2 gives true and
\* distance 3 gives false.
C6_Original ==
  FuzzyCalled /\ SameWordCount
    => /\ RefDistanceIs(RefNorm(str1), RefNorm(str2), 2) => ret = TRUE
       /\ RefDistanceIs(RefNorm(str1), RefNorm(str2), 3) => ret = FALSE

\* C6 amended: with equal word counts (strings compared lower-cased and
\* trimmed), distance 2 gives true, and distance 3 gives false unless one
\* string contains the other.
C6_DistanceThreshold ==
  FuzzyCalled /\ SameWordCount
    => /\ RefDistanceIs(RefNorm(str1), RefNorm(str2), 2) => ret = TRUE
       /\ RefDistanceIs(RefNorm(str1), RefNorm(str2), 3) /\ ~EitherContains
            => ret = FALSE

C6_Witness ==
  /\ FuzzyCalled
  /\ SameWordCount
  /\ RefDistanceIs(RefNorm(str1), RefNorm(str2), 3)
  /\ ~EitherContains
  /\ ret = FALSE

\* C7: levenshteinDistance is the least number of single-character edits;
\* it is 0 on equal strings, symmetric, and 1 for "roma", "ropa".
C7_LevenshteinIsMinEdits ==
  op = "levenshteinDistance"
    => /\ ret = RefMinEdits(str1, str2)
       /\ str1 = str2 => ret = 0
       /\ ret = levenshteinDistance(str2, str1)
       /\ str1 = S_roma /\ str2 = S_ropa => ret = 1

C7_Witness ==
  op = "levenshteinDistance" /\ str1 = S_roma /\ str2 = S_ropa /\ ret = 1

StripCalled == op = "stripRoadType"

RoadTypeWords ==
  {S_via, S_viale, S_piazza, S_corso, S_largo, S_vicolo, S_strada, S_piazzale}

\* the road-type words that, followed by a space, start the lower-cased
\* trimmed str1
LeadingRoadTypes == {t \in RoadTypeWords : RefWordPrefix(RefNorm(str1), t)}

\* the lower-cased trimmed str1 without its first n characters
NormAfter(n) == SubSeq(RefNorm(str1), n + 1, Len(RefNorm(str1)))

\* C8 as stated: stripRoadType returns the lower-cased trimmed input without
\* its leading road-type word and the following space, or unchanged when it
\* does not start with a road-type word and a space.
C8_Original ==
  StripCalled
    => /\ LeadingRoadTypes # {} => \E t \in LeadingRoadTypes : ret = NormAfter(Len(t) + 1)
       /\ LeadingRoadTypes = {} => ret = RefNorm(str1)

\* C8 amended: as stated, except that what follows the road-type word and
\* its space is trimmed again, so further whitespace after the road type is
\* removed too; stripRoadType("Via Roma") = "roma" = stripRoadType("Roma").
C8_StripRoadType ==
  StripCalled
    => /\ LeadingRoadTypes # {}
            => \E t \in LeadingRoadTypes : ret = RefTrim(NormAfter(Len(t) + 1))
       /\ LeadingRoadTypes = {} => ret = RefNorm(str1)
       /\ str1 = S_ViaRoma => ret = S_roma
       /\ str1 = S_Roma => ret = S_roma

C8_Witness == StripCalled /\ str1 = S_ViaRoma /\ ret = S_roma

(***************************************************************************)
(* Properties of parseAddress.                                             *)
(***************************************************************************)
ParseCalled == op = "parseAddress"

\* the k-th smallest element of a set of numbers
KthOf(S, k) == CHOOSE p \in S : Cardinality({q \in S : q < p}) = k - 1

CommaPositions(addr) == {i \in 1..Len(addr) : addr[i] = ","}

RefSegCount(addr) == Cardinality(CommaPositions(addr)) + 1

\* the k-th comma-separated segment of addr, trimmed
RefSegment(addr, k) ==
  LET lo == IF k = 1 THEN 0 ELSE KthOf(CommaPositions(addr), k - 1)
      hi == IF k = RefSegCount(addr) THEN Len(addr) + 1
            ELSE KthOf(CommaPositions(addr), k)
  IN RefTrim(SubSeq(addr, lo + 1, hi - 1))

\* the whitespace-separated tokens of s, in order
RefTokens(s) ==
  LET starts == {i \in 1..Len(s) : ~IsSpace(s[i]) /\ (i = 1 \/ IsSpace(s[i - 1]))}
      ends == {i \in 1..Len(s) : ~IsSpace(s[i]) /\ (i = Len(s) \/ IsSpace(s[i + 1]))}
  IN [k \in 1..Cardinality(starts) |-> SubSeq(s, KthOf(starts, k), KthOf(ends, k))]

RefIsRoadType(w) == [i \in 1..Len(w) |-> LowerChar(w[i])] \in RoadTypeWords

\* the street segment with its second token dropped when it has more than
\* two tokens and the first two are road types
RefDedup(seg) ==
  LET ws == RefTokens(seg)
  IN IF Len(ws) > 2 /\ RefIsRoadType(ws[1]) /\ RefIsRoadType(ws[2])
     THEN joinSpace(<<ws[1]>> \o SubSeq(ws, 3, Len(ws)))
     ELSE seg

\* a run of exactly five digits starts at i, with no letter, digit or
\* underscore right before or after it
RefFiveDigitsAt(s, i) ==
  /\ i + 4 <= Len(s)
  /\ \A k \in i..(i + 4) : s[k] \in Digits
  /\ i > 1 => ~IsWordChar(s[i - 1])
  /\ i + 5 <= Len(s) => ~IsWordChar(s[i + 5])

\* the leftmost such run of the whole address, empty when there is none
RefFirstPostcode(addr) ==
  LET at == {i \in 1..Len(addr) : RefFiveDigitsAt(addr, i)}
  IN IF at = {} THEN <<>> ELSE SubSeq(addr, KthOf(at, 1), KthOf(at, 1) + 4)

\* "<street>, <city>, <province>, <5 digits>"
FourSegmentForm ==
  /\ RefSegCount(address) = 4
  /\ Len(RefSegment(address, 4)) = 5
  /\ \A i \in 1..5 : RefSegment(address, 4)[i] \in Digits

S_GramsciAddress == JoinComma(<<S_ViaVialeAntonioGramsci, S_Firenze, S_FI, S_50100>>)

\* C9 as stated: a 4-segment address ending in a 5-digit segment parses to
\* street (de-duplicated), city, province = county, and that segment as
\* the postcode.
C9_Original ==
  ParseCalled /\ FourSegmentForm
    => /\ ret.street = RefDedup(RefSegment(address, 1))
       /\ ret.city = RefSegment(address, 2)
       /\ ret.province = RefSegment(address, 3)
       /\ ret.county = RefSegment(address, 3)
       /\ ret.postcode = RefSegment(address, 4)

\* C9 amended: as stated, except that the postcode is the leftmost
\* word-bounded run of five digits of the whole address, which is the last
\* segment only when no earlier segment holds such a run; the example
\* address parses as stated.
C9_FourSegmentParse ==
  ParseCalled /\ FourSegmentForm
    => /\ ret.street = RefDedup(RefSegment(address, 1))
       /\ ret.city = RefSegment(address, 2)
       /\ ret.province = RefSegment(address, 3)
       /\ ret.county = RefSegment(address, 3)
       /\ ret.postcode = RefFirstPostcode(address)
       /\ (\A k \in 1..3 : \A i \in 1..Len(RefSegment(address, k)) :
              ~RefFiveDigitsAt(RefSegment(address, k), i))
            => ret.postcode = RefSegment(address, 4)
       /\ address = S_GramsciAddress
            => /\ ret.street = S_ViaAntonioGramsci
               /\ ret.city = S_Firenze
               /\ ret.province = S_FI
               /\ ret.postcode = S_50100

C9_Witness ==
  /\ ParseCalled
  /\ address = S_GramsciAddress
  /\ ret.street = S_ViaAntonioGramsci
  /\ ret.postcode = S_50100

\* the names of the properties of a ParsedAddress
ParsedFields == {"street", "city", "province", "county", "postcode", "country"}

\* v is a trimmed comma-segment of the address, the first one possibly with
\* its second road-type token removed
IsSegmentOfInput(v) ==
  \/ \E k \in 1..RefSegCount(address) : v = RefSegment(address, k)
  \/ v = RefDedup(RefSegment(address, 1))

\* v is five consecutive digits of a comma-segment of the address
IsFiveDigitsOfInput(v) ==
  \E k \in 1..RefSegCount(address) :
    \E i \in 1..Len(RefSegment(address, k)) :
      /\ i + 4 <= Len(RefSegment(address, k))
      /\ v = SubSeq(RefSegment(address, k), i, i + 4)
      /\ \A j \in 1..5 : v[j] \in Digits

\* C13: every non-empty field of the parse is a trimmed comma-segment of
\* the input (the street segment possibly with its second road-type token
\* removed) or five digits taken from a segment.
C13_FieldsFromInput ==
  ParseCalled
    => /\ DOMAIN ret = ParsedFields
       /\ \A f \in ParsedFields :
            ret[f] = <<>> \/ IsSegmentOfInput(ret[f]) \/ IsFiveDigitsOfInput(ret[f])

\* a parse whose street lost a road-type token and whose postcode is only a
\* part of its segment
C13_Witness ==
  /\ ParseCalled
  /\ ret.street # <<>>
  /\ ret.street # RefSegment(address, 1)
  /\ ret.street = RefDedup(RefSegment(address, 1))
  /\ ret.city # <<>>
  /\ ret.postcode # <<>>
  /\ \A k \in 1..RefSegCount(address) : ret.postcode # RefSegment(address, k)

\* the first two tokens of seg are road types
FirstTwoRoadTypes(seg) ==
  /\ Len(RefTokens(seg)) >= 2
  /\ RefIsRoadType(RefTokens(seg)[1])
  /\ RefIsRoadType(RefTokens(seg)[2])

\* seg without its second token, the other tokens in order
WithoutSecondToken(seg) ==
  joinSpace([k \in 1..(Len(RefTokens(seg)) - 1) |->
               RefTokens(seg)[IF k = 1 THEN 1 ELSE k + 1]])

\* C15 as stated: when the first two tokens of the street segment are
\* road types the street is the segment without its second token, for any
\* number of tokens.
C15_Original ==
  ParseCalled /\ FirstTwoRoadTypes(RefSegment(address, 1))
    => ret.street = WithoutSecondToken(RefSegment(address, 1))

\* C15 amended: the second token is dropped only from a first segment of
\* more than two tokens, a first segment of exactly two road types is kept
\* as typed; in an address of five segments the first segment is the
\* country and the street is the second segment as typed.
C15_DedupOverTwoTokens ==
  ParseCalled /\ FirstTwoRoadTypes(RefSegment(address, 1))
    => \E kept \in {IF Len(RefTokens(RefSegment(address, 1))) > 2
                      THEN WithoutSecondToken(RefSegment(address, 1))
                    ELSE RefSegment(address, 1)} :
         IF RefSegCount(address) = 5
           THEN ret.country = kept /\ ret.street = RefSegment(address, 2)
         ELSE ret.street = kept

\* a street of exactly two road types, parsed
C15_Witness ==
  /\ ParseCalled
  /\ RefSegment(address, 1) = S_ViaViale
  /\ RefSegCount(address) = 2
  /\ ret.street = S_ViaViale

\* segment k of the address holds a word-bounded run of five digits
SegmentHasPostcode(k) ==
  \E i \in 1..Len(RefSegment(address, k)) : RefFiveDigitsAt(RefSegment(address, k), i)

\* v is the leftmost word-bounded run of five digits of seg
LeftmostRunOf(seg, v) ==
  \E i \in 1..Len(seg) :
    /\ RefFiveDigitsAt(seg, i)
    /\ \A j \in 1..(i - 1) : ~RefFiveDigitsAt(seg, j)
    /\ v = SubSeq(seg, i, i + 4)

\* C16: the parsed postcode is the leftmost word-bounded run of five digits
\* of the first comma-segment that holds one, the street segment included,
\* and is empty when no segment holds one; this is so for every segment
\* count.
C16_PostcodeScan ==
  ParseCalled
    => IF \A k \in 1..RefSegCount(address) : ~SegmentHasPostcode(k)
         THEN ret.postcode = <<>>
       ELSE \E k \in 1..RefSegCount(address) :
              /\ SegmentHasPostcode(k)
              /\ \A j \in 1..(k - 1) : ~SegmentHasPostcode(j)
              /\ LeftmostRunOf(RefSegment(address, k), ret.postcode)

\* the street segment holds a postcode and the last segment another one:
\* the parse has the one of the street
C16_Witness ==
  /\ ParseCalled
  /\ RefSegCount(address) = 4
  /\ RefSegment(address, 1) = S_ViaRoma12345
  /\ RefSegment(address, 4) = S_50100
  /\ ret.postcode = S_12345

\* the last comma-segment of the address
LastSegment == RefSegment(address, RefSegCount(address))

\* C17 as stated: with 3, 4 or 5 segments the postcode is the last segment
\* only if that segment matches the 5-digit pattern, and a last segment
\* that does not match is the province or the county of the parse.
C17_Original ==
  ParseCalled /\ RefSegCount(address) \in {3, 4, 5}
    => /\ (LastSegment # <<>> /\ ret.postcode = LastSegment)
            => SegmentHasPostcode(RefSegCount(address))
       /\ ~SegmentHasPostcode(RefSegCount(address))
            => ret.province = LastSegment \/ ret.county = LastSegment

\* C17 amended: a last segment that does not match is the province and the
\* county only in an address of three segments; with four segments
\* province and county are the third segment, with five the county is the
\* fourth and there is no province, and the last segment goes to no field.
C17_LastSegment ==
  ParseCalled /\ RefSegCount(address) \in {3, 4, 5}
    => /\ (LastSegment # <<>> /\ ret.postcode = LastSegment)
            => SegmentHasPostcode(RefSegCount(address))
       /\ ~SegmentHasPostcode(RefSegCount(address))
            => /\ RefSegCount(address) = 3
                    => ret.province = LastSegment /\ ret.county = LastSegment
               /\ RefSegCount(address) = 4
                    => /\ ret.province = RefSegment(address, 3)
                       /\ ret.county = RefSegment(address, 3)
               /\ RefSegCount(address) = 5
                    => /\ ret.province = <<>>
                       /\ ret.county = RefSegment(address, 4)
               /\ ( /\ RefSegCount(address) > 3
                    /\ LastSegment # <<>>
                    /\ LastSegment # RefDedup(RefSegment(address, 1))
                    /\ \A k \in 1..(RefSegCount(address) - 1) :
                         RefSegment(address, k) # LastSegment )
                    => \A f \in ParsedFields : ret[f] # LastSegment

\* four segments, the last one a name: the province is the third segment
\* and the last segment is in no field
C17_Witness ==
  /\ ParseCalled
  /\ RefSegCount(address) = 4
  /\ LastSegment = S_Firenze
  /\ RefSegment(address, 3) = S_FI
  /\ RefSegment(address, 2) = <<>>
  /\ ret.province = S_FI
  /\ ret.county = S_FI
  /\ \A f \in ParsedFields : ret[f] # S_Firenze

(***************************************************************************)
(* Properties of findBestResult.                                           *)
(***************************************************************************)
SelectCalled == op = "findBestResult"

\* the candidate is an address rather than a place: it has a road or a square
HasRoadOrSquare(r) == Len(r.road) > 0 \/ Len(r.square) > 0

\* the postcode and the street the address was typed with, empty if none
TypedPostcode == RefFirstPostcode(address)

TypedStreet == RefDedup(RefSegment(address, 1))

\* the candidate carries the typed postcode
HasTypedPostcode(r) == TypedPostcode # <<>> /\ r.postcode = TypedPostcode

\* the candidate carries the typed postcode and a road that fuzzy-matches
\* the typed street
HasTypedPostcodeAndRoad(r) ==
  /\ HasTypedPostcode(r)
  /\ Len(r.road) > 0
  /\ RefFuzzy(RefNorm(r.road), RefNorm(TypedStreet))

S_AddrRomaFirenze50100 == JoinComma(<<S_ViaRoma, S_Firenze, S_50100>>)

\* C1 as stated: when the address has a postcode and some candidate carries
\* that postcode, a candidate with that postcode is returned.
C1_Original ==
  /\ SelectCalled
  /\ TypedPostcode # <<>>
  /\ \E i \in 1..Len(results) : HasTypedPostcode(results[i])
  => ret.kind = "return" /\ HasTypedPostcode(results[ret.index])

\* C1 amended: when the address has a postcode and some candidate with a
\* road or a square carries that postcode, a candidate with that postcode is
\* returned; with no such candidate the call fails with an error; and no call
\* for an address with a postcode returns a candidate with another postcode.
C1_PostcodeCandidateReturned ==
  SelectCalled /\ TypedPostcode # <<>>
    => /\ (\E i \in 1..Len(results) :
              HasRoadOrSquare(results[i]) /\ HasTypedPostcode(results[i]))
            => ret.kind = "return" /\ HasTypedPostcode(results[ret.index])
       /\ ~(\E i \in 1..Len(results) :
              HasRoadOrSquare(results[i]) /\ HasTypedPostcode(results[i]))
            => ret.kind = "throw" /\ ret.message = "No result found with postcode"
       /\ ret.kind = "return" => HasTypedPostcode(results[ret.index])

\* a candidate with another postcode and a higher confidence comes first
C1_Witness ==
  /\ SelectCalled
  /\ address = S_AddrRomaFirenze50100
  /\ Len(results) = 2
  /\ results[1].postcode = S_20100
  /\ results[1].confidence > results[2].confidence
  /\ ret.kind = "return"
  /\ ret.index = 2

\* C2 as stated: a returned candidate has a road or a square, and a list
\* without any such candidate makes the call fail with an error.
C2_Original ==
  SelectCalled
    => /\ ret.kind = "return" => HasRoadOrSquare(results[ret.index])
       /\ (\A i \in 1..Len(results) : ~HasRoadOrSquare(results[i]))
            => ret.kind = "throw"

\* C3: for an address with a postcode and a street, when some candidate
\* carries the postcode and a matching road the first such candidate is
\* returned, whatever precedes it and whatever the confidences are; a
\* candidate that matches the postcode only is returned only when there is
\* none, and it is then the first address candidate with the postcode.
C3_PostcodeAndRoadPreferred ==
  SelectCalled /\ TypedPostcode # <<>> /\ TypedStreet # <<>>
    => /\ (\E i \in 1..Len(results) : HasTypedPostcodeAndRoad(results[i]))
            => /\ ret.kind = "return"
               /\ HasTypedPostcodeAndRoad(results[ret.index])
               /\ \A j \in 1..(ret.index - 1) : ~HasTypedPostcodeAndRoad(results[j])
       /\ (ret.kind = "return" /\ ~HasTypedPostcodeAndRoad(results[ret.index]))
            => /\ \A i \in 1..Len(results) : ~HasTypedPostcodeAndRoad(results[i])
               /\ HasTypedPostcode(results[ret.index])
               /\ \A j \in 1..(ret.index - 1) :
                    ~(HasRoadOrSquare(results[j]) /\ HasTypedPostcode(results[j]))

\* the postcode-only candidate comes first and has the higher confidence
C3_Witness ==
  /\ SelectCalled
  /\ address = S_AddrRomaFirenze50100
  /\ Len(results) = 2
  /\ HasTypedPostcode(results[1])
  /\ ~HasTypedPostcodeAndRoad(results[1])
  /\ results[1].confidence > results[2].confidence
  /\ HasTypedPostcodeAndRoad(results[2])
  /\ ret.kind = "return"
  /\ ret.index = 2

\* the city a candidate was geocoded to: city, else town, else village
GeocodedCity(r) == firstNonEmpty(<<r.city, r.town, r.village>>)

\* the table of mismatches registers the city as never in the province
RegisteredMismatch(city, province) ==
  \E k \in 1..Len(mismatches) :
    /\ mismatches[k][1] = toLowerCase(city)
    /\ \E m \in 1..Len(mismatches[k][2]) : mismatches[k][2][m] = toLowerCase(province)

\* the typed province and the candidate's city are a registered mismatch
IncompatibleWithProvince(r) ==
  /\ Len(GeocodedCity(r)) > 0
  /\ Len(parseAddress(address).province) > 0
  /\ RegisteredMismatch(GeocodedCity(r), parseAddress(address).province)

\* C10 as stated: a candidate whose city is registered as never in the typed
\* province is not returned, and when every candidate is such a one the call
\* fails with the message "Invalid geographical combination".
C10_Original ==
  SelectCalled
    => /\ ret.kind = "return" => ~IncompatibleWithProvince(results[ret.index])
       /\ (\A i \in 1..Len(results) : IncompatibleWithProvince(results[i]))
            => ret.kind = "throw" /\ ret.detail = "Invalid geographical combination"

\* the city as typed: the second comma-segment (no address of the calls
\* has five segments)
TypedCity == IF RefSegCount(address) >= 2 THEN RefSegment(address, 2) ELSE <<>>

\* s lower-cased and trimmed, without a leading road-type word and the
\* whitespace after it
RefStrip(s) ==
  IF \E t \in RoadTypeWords : RefWordPrefix(RefNorm(s), t)
    THEN RefTrim(SubSeq(RefNorm(s),
                        Len(CHOOSE t \in RoadTypeWords : RefWordPrefix(RefNorm(s), t)) + 2,
                        Len(RefNorm(s))))
  ELSE RefNorm(s)

\* two non-empty names match fuzzily
RefFuzzyMatch(a, b) == a # <<>> /\ b # <<>> /\ RefFuzzy(RefNorm(a), RefNorm(b))

\* strict match: fuzzy match, and the candidate's name has no more words
\* than the typed one
RefStrictMatch(geoName, inputName) ==
  /\ RefFuzzyMatch(geoName, inputName)
  /\ RefWordCount(RefNorm(geoName)) <= RefWordCount(RefNorm(inputName))

\* r has the typed street, road types aside, in a place that strictly
\* matches the typed city
StreetAndCityMatch(r) ==
  /\ r.road # <<>>
  /\ RefFuzzyMatch(RefStrip(r.road), RefStrip(TypedStreet))
  /\ \E f \in {"city", "town", "village", "hamlet"} : RefStrictMatch(r[f], TypedCity)

\* a street and a city were typed, and no postcode
StreetAndCityTyped == TypedStreet # <<>> /\ TypedCity # <<>> /\ TypedPostcode = <<>>

\* C18: with a street, a city and no postcode, a returned candidate has a
\* road that fuzzy-matches the typed street, road types stripped, and a
\* city, town, village or hamlet that strict-matches the typed city; the
\* first such candidate is returned, and without one the call throws a
\* VALIDATION_ERROR.  "Monterotondo Marittimo" does not strict-match
\* "Monterotondo".
C18_StreetAndCity ==
  SelectCalled /\ StreetAndCityTyped
    => /\ ret.kind = "return"
            => /\ StreetAndCityMatch(results[ret.index])
               /\ \A j \in 1..(ret.index - 1) : ~StreetAndCityMatch(results[j])
       /\ (\A i \in 1..Len(results) : ~StreetAndCityMatch(results[i]))
            => /\ ret.kind = "throw"
               /\ ret.tag = "VALIDATION_ERROR:"
               /\ ret.message = "No result found with street name and city"
       /\ (\E i \in 1..Len(results) : StreetAndCityMatch(results[i]))
            => ret.kind = "return"
       /\ ~RefStrictMatch(S_MonterotondoMarittimo, S_Monterotondo)

\* "Via Roma, Monterotondo" with a Via Roma in Monterotondo Marittimo
\* listed before a Via Roma in Monterotondo: the second is returned
C18_Witness ==
  /\ SelectCalled
  /\ StreetAndCityTyped
  /\ TypedCity = S_Monterotondo
  /\ Len(results) = 2
  /\ results[1].town = S_MonterotondoMarittimo
  /\ results[2].city = S_Monterotondo
  /\ ret.kind = "return"
  /\ ret.index = 2

\* r has a road that fuzzy-matches the typed street, road types aside
RoadMatchesTyped(r) ==
  r.road # <<>> /\ RefFuzzyMatch(RefStrip(r.road), RefStrip(TypedStreet))

\* i is the first candidate of the list with such a road
FirstRoadMatch(i) ==
  /\ RoadMatchesTyped(results[i])
  /\ \A j \in 1..(i - 1) : ~RoadMatchesTyped(results[j])

RefLower(s) == [i \in 1..Len(s) |-> LowerChar(s[i])]

PlaceFields == <<"city", "town", "village", "hamlet">>

\* the street-and-city search has nothing to return
StreetAndCitySearchFails ==
  /\ SelectCalled
  /\ StreetAndCityTyped
  /\ \A i \in 1..Len(results) : ~StreetAndCityMatch(results[i])

\* C19: when the street-and-city search fails, the error has a suggestion
\* exactly when a candidate's road matches the typed one and the first such
\* candidate has a city, town, village or hamlet other than the typed
\* city, case aside; the suggestion is the first of these four that the
\* candidate has.  The error has the postcode hint when no postcode was
\* typed.
C19_Suggestion ==
  StreetAndCitySearchFails
    => /\ ret.kind = "throw"
       /\ ret.suggestion # <<>>
            <=> \E i \in 1..Len(results) :
                  /\ FirstRoadMatch(i)
                  /\ \E k \in 1..4 :
                       /\ results[i][PlaceFields[k]] # <<>>
                       /\ RefLower(results[i][PlaceFields[k]]) # RefLower(TypedCity)
       /\ ret.suggestion # <<>>
            => \E i \in 1..Len(results) : \E k \in 1..4 :
                 /\ FirstRoadMatch(i)
                 /\ ret.suggestion = results[i][PlaceFields[k]]
                 /\ \A j \in 1..(k - 1) : results[i][PlaceFields[j]] = <<>>
       /\ TypedPostcode = <<>> => ret.postcodeHint

\* "Via Roma, Monterotondo" with only a Via Roma in Monterotondo Marittimo:
\* the error suggests that town and has the postcode hint
C19_Witness ==
  /\ StreetAndCitySearchFails
  /\ TypedCity = S_Monterotondo
  /\ ret.kind = "throw"
  /\ ret.suggestion = S_MonterotondoMarittimo
  /\ ret.postcodeHint

\* no candidate of the list has a road or a square
FilterLeavesNone == \A i \in 1..Len(results) : ~HasRoadOrSquare(results[i])

\* the errors of the postcode branch and of the street branch
BranchMessages ==
  {"No result found with postcode", "No result found with street name and city",
   "No result found with street name"}

\* the outcome is one of the scoring fallback over the whole list: a
\* candidate of at least the primary confidence, or the first diagnostic of
\* the scoring, which is "Low confidence" when every candidate is below it
ScoredOverRawList ==
  /\ \/ /\ ret.kind = "return"
        /\ ret.index \in 1..Len(results)
        /\ results[ret.index].confidence >= MinConfidence
     \/ ret.kind = "throw" /\ ret.message = "Diagnostic"
  /\ (\A i \in 1..Len(results) : results[i].confidence < MinConfidence)
       => ret.kind = "throw" /\ ret.detail = "Low confidence"

\* C20 as stated: when no candidate has a road or a square the call goes on
\* to the scoring fallback over the whole list, whatever was typed, and
\* does not fail in the postcode branch or in the street branch.
C20_Original ==
  SelectCalled /\ FilterLeavesNone
    => /\ ~(ret.kind = "throw" /\ ret.message \in BranchMessages)
       /\ ScoredOverRawList

\* C20 amended: when no candidate has a road or a square the call goes on
\* to the scoring fallback over the whole list only if neither a postcode
\* nor a street was typed; with a postcode it fails in the postcode branch,
\* and with a street and no postcode in the street branch.
C20_FallbackWithoutPostcodeAndStreet ==
  SelectCalled /\ FilterLeavesNone
    => /\ TypedPostcode # <<>>
            => ret.kind = "throw" /\ ret.message = "No result found with postcode"
       /\ TypedPostcode = <<>> /\ TypedStreet # <<>>
            => /\ ret.kind = "throw"
               /\ ret.message = IF TypedCity # <<>>
                                  THEN "No result found with street name and city"
                                ELSE "No result found with street name"
       /\ TypedPostcode = <<>> /\ TypedStreet = <<>> => ScoredOverRawList

\* a postcode was typed and the list holds places only: the call failed in
\* the postcode branch
C20_Witness ==
  /\ SelectCalled
  /\ FilterLeavesNone
  /\ TypedPostcode # <<>>
  /\ \E i \in 1..Len(results) : results[i].confidence >= MinConfidence
  /\ ret.kind = "throw"
  /\ ret.message = "No result found with postcode"

\* C14: on a non-empty list findBestResult returns a candidate of the list
\* or throws an error tagged VALIDATION_ERROR:; it does not return null.
C14_NeverNull ==
  SelectCalled /\ Len(results) > 0
    => \/ ret.kind = "return" /\ ret.index \in 1..Len(results)
       \/ ret.kind = "throw" /\ ret.tag = "VALIDATION_ERROR:"

\* no candidate reaches even the last-resort confidence, and the call threw
C14_Witness ==
  /\ SelectCalled
  /\ Len(results) > 0
  /\ \A i \in 1..Len(results) : results[i].confidence < FallbackConfidence
  /\ ret.kind = "throw"
  /\ ret.detail = "Low confidence"

\* the scoring loop finds more than one valid candidate and the best one is
\* not the first: the sort of line 401 has something to reorder
SortReorders ==
  /\ Len(results) = 2
  /\ \A i \in 1..2 : ~HasRoadOrSquare(results[i])
  /\ TypedPostcode = <<>>
  /\ TypedStreet = <<>>
  /\ results[1].confidence < results[2].confidence
  /\ ret.kind = "return"
  /\ ret.index = 2

LocationResult(latitude, longitude, formattedAddress, confidence) ==
  [kind |-> "location", latitude |-> latitude, longitude |-> longitude,
   address |-> formattedAddress, confidence |-> confidence,
   tag |-> "", text |-> ""]

\* an Error whose message is the tag followed by the text; the tag is ""
\* for an error raised by the runtime (a TypeError)
GeocodeError(tag, text) ==
  [kind |-> "error", latitude |-> 0, longitude |-> 0, address |-> <<>>,
   confidence |-> 0, tag |-> tag, text |-> text]

\* the object literal of the return: reading .lat of an absent geometry is
\* a TypeError
toLocation(selected) ==
  IF selected.geometry = <<>>
    THEN GeocodeError("", "TypeError")
  ELSE LocationResult(selected.geometry[1].lat, selected.geometry[1].lng,
                      selected.formatted, selected.confidence)

\* the body of the try block: the selected candidate as a LocationResult,
\* or what is thrown
selectLocation(rs, validResult) ==
  IF validResult.kind = "throw"
    THEN GeocodeError(validResult.tag, validResult.message)
  ELSE IF validResult.kind = "return"
    THEN toLocation(rs[validResult.index])
  ELSE GeocodeError("VALIDATION_ERROR:", "Invalid or not found address")

\* a faulty catch block, which rethrows whatever it caught
catchSelectionRethrows(outcome) == outcome

\* the catch block of the try: a tagged error goes on, any other is replaced
catchSelection(outcome) ==
  IF outcome.kind = "error" /\ outcome.tag # "VALIDATION_ERROR:"
    THEN GeocodeError("VALIDATION_ERROR:", "Invalid or not found address")
  ELSE outcome

\* the map callback
mapResponse(present, rs, originalAddress) ==
  IF present /\ Len(rs) > 0
    THEN CHOOSE outcome \in
           {catchSelection(selectLocation(rs, validResult)) :
              validResult \in {findBestResult(rs, originalAddress)}} : TRUE
  ELSE GeocodeError("NO_RESULTS:", "No results found for this address")

\* catchError: the errors of the map callback carry no HTTP status, so one
\* that is not tagged falls to the last branch
catchError(outcome) ==
  IF outcome.kind = "error"
       /\ outcome.tag \notin {"VALIDATION_ERROR:", "NO_RESULTS:"}
    THEN GeocodeError("API_ERROR:", "Error in the geocoding service")
  ELSE outcome

geocode(present, rs, originalAddress) ==
  CHOOSE emitted \in
    {catchError(outcome) : outcome \in {mapResponse(present, rs, originalAddress)}} : TRUE

(***************************************************************************)
(* Calls of geocode: the provider's answer and the address as typed.       *)
(***************************************************************************)
S_ViaRomaFirenzeItalia ==
  <<"V", "i", "a", " ", "R", "o", "m", "a", ",", " ", "F", "i", "r", "e",
    "n", "z", "e", ",", " ", "I", "t", "a", "l", "i", "a">>

\* candidate c with the geometry and the formatted address given
Answered(c, geometry, formatted) ==
  [f \in DOMAIN c \cup {"geometry", "formatted"} |->
     IF f = "geometry" THEN geometry
     ELSE IF f = "formatted" THEN formatted
     ELSE c[f]]

GeocodeCandidates ==
  {Answered(Candidate(S_ViaRoma, <<>>, S_Firenze, <<>>, S_Firenze, S_50100, S_it, 9),
            <<[lat |-> 43, lng |-> 11]>>, S_ViaRomaFirenzeItalia),
   Answered(Candidate(S_ViaRoma, <<>>, S_Firenze, <<>>, S_Firenze, S_50100, S_it, 8),
            <<>>, S_ViaRomaFirenzeItalia),
   Answered(Candidate(S_ViaRoma, <<>>, S_Milano, <<>>, S_Milano, S_20100, S_it, 9),
            <<[lat |-> 45, lng |-> 9]>>, <<>>),
   Answered(Candidate(<<>>, <<>>, S_Firenze, <<>>, S_Firenze, <<>>, S_it, 10),
            <<[lat |-> 44, lng |-> 11]>>, S_Firenze),
   Answered(Candidate(<<>>, <<>>, S_Firenze, <<>>, <<>>, <<>>, S_it, 9),
            <<>>, S_Firenze),
   Answered(Candidate(<<>>, <<>>, S_Milano, <<>>, S_Milano, <<>>, S_fr, 7),
            <<[lat |-> 45, lng |-> 9]>>, S_Milano)}

GeocodeAddresses ==
  {JoinComma(<<S_ViaRoma, S_Firenze, S_50100>>),
   JoinComma(<<S_ViaRoma, S_Firenze>>),
   JoinComma(<<<<>>, S_Firenze>>),
   JoinComma(<<<<>>, S_Milano>>)}

InitGeocode ==
  /\ str1 = <<>>
  /\ str2 = <<>>
  /\ address \in GeocodeAddresses
  /\ hasResults \in BOOLEAN
  /\ results \in UNION {[1..n -> GeocodeCandidates] : n \in 0..MaxResults}
  /\ ~hasResults => results = <<>>
  /\ op = "none"
  /\ ret = NoRet
  /\ FormConstructed

GeocodeCall ==
  /\ op' = "geocode"
  /\ ret' = geocode(hasResults, results, address)
  /\ UNCHANGED <<str1, str2, address, results, hasResults, component, app, inFlight, requests, outputs>>

NextGeocode == GeocodeCall

SpecGeocode == InitGeocode /\ [][NextGeocode]_vars

(***************************************************************************)
(* Properties of geocode.                                                  *)
(***************************************************************************)
GeocodeCalled == op = "geocode"

\* what selection gave for the list and address of the state
Selection == findBestResult(results, address)

\* selection chose a candidate that has no geometry
SelectedWithoutGeometry ==
  /\ hasResults
  /\ Len(results) > 0
  /\ Selection.kind = "return"
  /\ results[Selection.index].geometry = <<>>

\* ret is the LocationResult of candidate c
LocationOf(c) ==
  /\ ret.kind = "location"
  /\ c.geometry # <<>>
  /\ ret.latitude = c.geometry[1].lat
  /\ ret.longitude = c.geometry[1].lng
  /\ ret.address = c.formatted
  /\ ret.confidence = c.confidence

S_Toscana == <<"T", "o", "s", "c", "a", "n", "a">>

\* candidate c with the state (the Italian region) given
InRegion(c, state) == [c EXCEPT !.state = state]

ScoreCandidates ==
  {Candidate(<<>>, <<>>, S_Firenze, <<>>, S_Firenze, S_50100, S_it, 10),
   Candidate(<<>>, <<>>, S_Firenze, <<>>, S_Firenze, <<>>, S_it, 9),
   Candidate(<<>>, <<>>, S_Firenze, <<>>, <<>>, <<>>, S_it, 9),
   Candidate(<<>>, <<>>, S_Firenze, <<>>, <<>>, <<>>, S_it, 8),
   Candidate(<<>>, <<>>, S_Milano, <<>>, S_Milano, <<>>, S_it, 9),
   Candidate(<<>>, <<>>, S_Milano, <<>>, <<>>, <<>>, S_it, 0),
   Candidate(<<>>, <<>>, S_Firenze, <<>>, S_Firenze, <<>>, S_fr, 8),
   Candidate(<<>>, <<>>, S_Firenze, <<>>, S_Firenze, S_50100, S_fr, 10),
   Candidate(<<>>, <<>>, S_Milano, <<>>, S_Milano, <<>>, S_fr, 9),
   Candidate(<<>>, <<>>, S_Firenze, <<>>, <<>>, <<>>, <<>>, 9),
   InRegion(Candidate(<<>>, <<>>, S_Firenze, <<>>, S_Firenze, <<>>, S_it, 9), S_Toscana),
   Candidate(S_ViaRoma, <<>>, S_Firenze, <<>>, S_Firenze, S_50100, S_it, 9)}

ScoreAddresses ==
  {JoinComma(<<<<>>, S_Firenze>>),
   JoinComma(<<<<>>, S_Firenze, S_Firenze>>),
   JoinComma(<<<<>>, S_Firenze, S_Milano>>),
   JoinComma(<<<<>>, S_Firenze, S_Toscana>>),
   JoinComma(<<<<>>, S_Firenze, S_50100>>),
   JoinComma(<<<<>>, S_Firenze, S_20100>>),
   JoinComma(<<<<>>, <<>>, S_Firenze>>)}

InitScore ==
  /\ str1 = <<>>
  /\ str2 = <<>>
  /\ address \in ScoreAddresses
  /\ results \in UNION {[1..n -> ScoreCandidates] : n \in 1..MaxResults}
  /\ hasResults = TRUE
  /\ op = "none"
  /\ ret = NoRet
  /\ FormConstructed

\* the for-loop alone: what it leaves in validResults and validationErrors
ScoringLoopCall ==
  /\ op' = "scoringLoop"
  /\ ret' = scoringLoop(results, parseAddress(address), 1, <<>>, <<>>)
  /\ UNCHANGED <<str1, str2, address, results, hasResults, component, app, inFlight, requests, outputs>>

ScoringFallbackCall ==
  /\ op' = "scoringFallback"
  /\ ret' = scoringFallback(results, parseAddress(address))
  /\ UNCHANGED <<str1, str2, address, results, hasResults, component, app, inFlight, requests, outputs>>

NextScore == ScoringLoopCall \/ ScoringFallbackCall

SpecScore == InitScore /\ [][NextScore]_vars

(***************************************************************************)
(* Properties of the scoring fallback.                                     *)
(***************************************************************************)
LoopCalled == op = "scoringLoop"

FallbackCalled == op = "scoringFallback"

\* r is of another country than Italy: the international path
NonItalian(r) == r.country_code # <<>> /\ RefLower(r.country_code) # S_it

\* the candidates the loop kept, by index
Survivors == {ret.validResults[k].result : k \in 1..Len(ret.validResults)}

\* how many diagnostics of the loop are the text d
DiagnosticCount(d) ==
  Cardinality({k \in 1..Len(ret.validationErrors) : ret.validationErrors[k] = d})

\* C21 as stated: a candidate of confidence below 9 is discarded for it
\* only on the Italian path; one of another country is still scored.
C21_Original ==
  LoopCalled
    => DiagnosticCount("Low confidence")
         = Cardinality({i \in 1..Len(results) :
                          results[i].confidence < MinConfidence /\ ~NonItalian(results[i])})

\* C21 amended: every candidate of confidence below 9 is discarded with a
\* "Low confidence" diagnostic, whatever its country code, and none of them
\* is kept.
C21_CutoffOnEveryPath ==
  LoopCalled
    => /\ DiagnosticCount("Low confidence")
            = Cardinality({i \in 1..Len(results) : results[i].confidence < MinConfidence})
       /\ \A i \in Survivors : results[i].confidence >= MinConfidence

\* a candidate of another country, of confidence 8 and in the typed city,
\* alone in the list: it is discarded for its confidence
C21_Witness ==
  /\ LoopCalled
  /\ Len(results) = 1
  /\ NonItalian(results[1])
  /\ results[1].confidence < MinConfidence
  /\ results[1].city = TypedCity
  /\ ret.validResults = <<>>
  /\ ret.validationErrors = <<"Low confidence">>

\* what the scoring loop collects for the list and the address of the state
Collected == scoringLoop(results, parseAddress(address), 1, <<>>, <<>>)

\* C22: when the loop kept a candidate, the fallback returns the kept
\* candidate of the highest score, and of those of the highest score the
\* one that comes first in the list.
C22_HighestScoreFirst ==
  FallbackCalled
    => \E kept \in {Collected.validResults} :
         Len(kept) > 0
           => /\ ret.kind = "return"
              /\ \E k \in 1..Len(kept) :
                   /\ kept[k].result = ret.index
                   /\ \A j \in 1..Len(kept) :
                        /\ kept[j].score <= kept[k].score
                        /\ kept[j].score = kept[k].score
                             => kept[k].result <= kept[j].result

\* two different candidates kept with the same score: the first is returned
C22_Witness ==
  /\ FallbackCalled
  /\ Len(results) = 2
  /\ results[1] # results[2]
  /\ ret.kind = "return"
  /\ ret.index = 1
  /\ \E kept \in {Collected.validResults} :
       Len(kept) = 2 /\ kept[1].score = kept[2].score

\* the province as typed: the third of three comma-segments, unless it
\* holds a postcode (the addresses of these calls have two or three)
TypedProvince ==
  IF RefSegCount(address) = 3 /\ ~SegmentHasPostcode(3)
    THEN RefSegment(address, 3)
  ELSE <<>>

\* the region of a candidate: its state, else its state district
GeocodedRegion(r) == IF r.state # <<>> THEN r.state ELSE r.state_district

\* the typed postcode and the candidate's are both there and differ
PostcodeDiffers(r) ==
  TypedPostcode # <<>> /\ r.postcode # <<>> /\ r.postcode # TypedPostcode

ProvinceDiagnostics == {"Province mismatch", "Invalid geographical combination"}

SameVerdict(r, addressParts) ==
  /\ validateAddressMatchGiven(r, addressParts, TRUE)
       = validateAddressMatchGiven(r, addressParts, FALSE)
  /\ \E known \in {scoreResultGiven(r, addressParts, TRUE)},
        unknown \in {scoreResultGiven(r, addressParts, FALSE)} :
       /\ known.valid = unknown.valid
       /\ known.score = unknown.score
       /\ Len(known.errors) = Len(unknown.errors)
       /\ \A k \in 1..Len(known.errors) :
            \/ known.errors[k] = unknown.errors[k]
            \/ /\ known.errors[k] = "Invalid geographical combination"
               /\ unknown.errors[k] = "Province mismatch"

\* C25: whether checkKnownMismatches answers true or false, each candidate
\* of the list gets the same verdict, and the candidates the loop kept are
\* those valid under either answer; only the province diagnostic differs.
C25_TableOnlyRefinesText ==
  LoopCalled
    => \E addressParts \in {parseAddress(address)} :
         /\ \A i \in 1..Len(results) : SameVerdict(results[i], addressParts)
         /\ Survivors = {i \in 1..Len(results) :
                           scoreResultGiven(results[i], addressParts, FALSE).valid}

\* the table answered true for the only candidate: it is dropped with the
\* text of the table
C25_Witness ==
  /\ LoopCalled
  /\ Len(results) = 1
  /\ checkKnownMismatches(GeocodedCity(results[1]), TypedProvince, results[1].county)
  /\ Survivors = {}
  /\ ret.validationErrors = <<"Invalid geographical combination">>

\* validateAddressMatch throws its postcode-mismatch error for r: an
\* Italian candidate that passes the confidence, city and province checks
\* and whose postcode differs from the typed one
RaisesPostcodeMismatch(r) ==
  /\ r.confidence >= MinConfidence
  /\ r.country_code = S_it
  /\ RefFuzzyMatch(GeocodedCity(r), TypedCity)
  /\ TypedProvince # <<>>
       => \/ RefFuzzyMatch(r.county, TypedProvince)
          \/ RefFuzzyMatch(GeocodedRegion(r), TypedProvince)
  /\ PostcodeDiffers(r)

Raisers == {i \in 1..Len(results) : RaisesPostcodeMismatch(results[i])}

C29_ReturnedAtLeastNine ==
  FallbackCalled
    => /\ ret.kind = "return" => results[ret.index].confidence >= MinConfidence
       /\ ret.kind # "null"
       /\ \E loop \in {Collected} :
            ( /\ Len(loop.validResults) = 0
              /\ \E i \in 1..Len(results) : results[i].confidence < MinConfidence )
              => /\ ret.kind = "throw"
                 /\ ret.tag = "VALIDATION_ERROR:"
                 /\ \E k \in 1..Len(loop.validationErrors) :
                      loop.validationErrors[k] = "Low confidence"

\* the first candidate has confidence 8, the second 9 or more and is not
\* kept: the call throws and does not return the first
C29_Witness ==
  /\ FallbackCalled
  /\ Len(results) = 2
  /\ results[1].confidence = FallbackConfidence
  /\ results[2].confidence >= MinConfidence
  /\ ret.kind = "throw"
  /\ ret.detail = "Low confidence"

(***************************************************************************)
(* The scoring fallback as findBestResult reaches it.                      *)
(***************************************************************************)
\* the outcome is one the scoring fallback gives: its diagnostic, null, or
\* a candidate without road and square (the branches before it return
\* candidates that have one)
ReachedScoring ==
  \/ ret.kind = "throw" /\ ret.message = "Diagnostic"
  \/ ret.kind = "null"
  \/ ret.kind = "return" /\ ~HasRoadOrSquare(results[ret.index])

\* the match bonus without a postcode part: one for the city, one for the
\* province or county
BonusWithoutPostcode(r) ==
  (IF RefFuzzyMatch(GeocodedCity(r), TypedCity) THEN 1 ELSE 0)
  + (IF RefFuzzyMatch(r.county, TypedProvince) THEN 1 ELSE 0)

\* C28: on a non-empty list the scoring loop is reached only when no
\* postcode and no street were typed and no candidate has a road or a
\* square; the score of every candidate it keeps is then its confidence
\* plus the city and province bonus, with nothing for the postcode.
C28_ScoringWithoutPostcode ==
  (SelectCalled /\ Len(results) > 0 /\ ReachedScoring)
    => /\ TypedPostcode = <<>>
       /\ TypedStreet = <<>>
       /\ FilterLeavesNone
       /\ \E kept \in {Collected.validResults} :
            \A k \in 1..Len(kept) :
              kept[k].score = results[kept[k].result].confidence
                                + BonusWithoutPostcode(results[kept[k].result])

\* the scoring loop returned a candidate that has a postcode
C28_Witness ==
  /\ SelectCalled
  /\ ReachedScoring
  /\ ret.kind = "return"
  /\ results[ret.index].postcode # <<>>
  /\ results[ret.index].country_code = S_it

(***************************************************************************)
(* AddressFormComponent and the handlers of App that its outputs reach     *)
(* (address-form.component.ts, app.ts).  An output event is delivered      *)
(* synchronously, so the handler of App runs inside the step that emits.   *)
(* The map touched is left out: its only reader, isInvalid, is called by   *)
(* onSubmit after line 197 has marked every field as touched.              *)
(***************************************************************************)
MaxRequests == 2

\* the values a field is edited to; a field is emptied by construction and
\* by a change of country
FieldValues(field) ==
  IF field = "italianCountryCode" THEN {<<>>, S_it, S_fr}
  ELSE IF field = "roadType" THEN {<<>>, S_Via}
  ELSE IF field = "roadName" THEN {<<>>, S_Roma}
  ELSE IF field = "city" THEN {S_Firenze, <<"F", "#">>}
  ELSE IF field = "county" THEN {<<>>}
  ELSE {<<>>}

\* /^[A-Za-z0-9'\- ]+$/ when quote is TRUE, /^[A-Za-z0-9 \-]+$/ otherwise;
\* the accented range of the first adds nothing over the explored alphabet
matchesText(s, quote) ==
  /\ Len(s) > 0
  /\ \A i \in 1..Len(s) :
       \/ IsWordChar(s[i]) /\ s[i] # "_"
       \/ s[i] \in {"-", " "}
       \/ quote /\ s[i] = "'"

isValidItalianPostalCode(postalCode) ==
  /\ truthy(postalCode)
  /\ Len(postalCode) = PostcodeLen
  /\ \A i \in 1..Len(postalCode) : IsDigit(postalCode[i])

\* isInvalid on the fields c, every field touched
isInvalid(c, field) ==
  IF field = "postalCode"
    THEN IF c.italianCountryCode = S_it
           THEN truthy(c.postalCode) /\ ~isValidItalianPostalCode(c.postalCode)
         ELSE IF truthy(c.italianCountryCode)
           THEN truthy(c.postalCode) /\ ~matchesText(c.postalCode, FALSE)
         ELSE FALSE
  ELSE IF field \in {"roadName", "city"}
    THEN ~truthy(c[field]) \/ ~matchesText(c[field], TRUE)
  ELSE IF field = "county"
    THEN truthy(c.county) /\ ~matchesText(c.county, TRUE)
  ELSE ~truthy(c[field])

\* the condition of the early return of onSubmit
validationFails(c) ==
  \/ isInvalid(c, "italianCountryCode")
  \/ c.italianCountryCode = S_it /\ isInvalid(c, "roadType")
  \/ isInvalid(c, "roadName")
  \/ isInvalid(c, "city")
  \/ c.italianCountryCode = S_it /\ isInvalid(c, "county")
  \/ /\ truthy(c.italianCountryCode)
     /\ c.italianCountryCode # S_it
     /\ truthy(c.postalCode)
     /\ isInvalid(c, "postalCode")

\* the message of the early return
validationMessage(c) ==
  IF isInvalid(c, "roadName")
    THEN IF ~truthy(c.roadName) THEN "Address name is required."
         ELSE "Address name: no special characters allowed."
  ELSE IF isInvalid(c, "city")
    THEN IF ~truthy(c.city) THEN "City is required."
         ELSE "City: no special characters allowed."
  ELSE IF c.italianCountryCode = S_it /\ isInvalid(c, "county")
    THEN "County: no special characters allowed."
  ELSE IF /\ truthy(c.italianCountryCode)
          /\ c.italianCountryCode # S_it
          /\ truthy(c.postalCode)
          /\ isInvalid(c, "postalCode")
    THEN "Invalid postcode format."
  ELSE IF c.italianCountryCode = S_it
    THEN "Please fill in all required fields."
  ELSE "Country, road name and city are required."

\* the address string handed to geocode
buildAddress(c) ==
  IF c.italianCountryCode = S_it
    THEN LET roadTypePrefix ==
               IF truthy(c.roadType) THEN c.roadType \o <<" ">> ELSE <<>>
             countyToUse ==
               IF /\ truthy(c.county)
                  /\ truthy(c.city)
                  /\ trim(toLowerCase(c.county)) = trim(toLowerCase(c.city))
                 THEN <<>>
               ELSE c.county
             road == roadTypePrefix \o c.roadName
         IN  IF truthy(countyToUse) /\ truthy(c.postalCode)
               THEN JoinComma(<<road, c.city, countyToUse, c.postalCode>>)
             ELSE IF truthy(countyToUse)
               THEN JoinComma(<<road, c.city, countyToUse>>)
             ELSE IF truthy(c.postalCode)
               THEN JoinComma(<<road, c.city, c.postalCode>>)
             ELSE JoinComma(<<road, c.city>>)
  ELSE IF truthy(c.county)
    THEN JoinComma(<<c.roadName, c.city, c.county, c.postalCode>>)
  ELSE JoinComma(<<c.roadName, c.city, c.postalCode>>)

\* the text the error callback shows for the error it receives
errorMessage(error) ==
  IF error.tag \in {"VALIDATION_ERROR:", "NO_RESULTS:", "API_ERROR:",
                    "NETWORK_ERROR:"}
    THEN error.text
  ELSE "Error occurred while searching for the location."

\* an output event; request is the number of the geocode request whose
\* subscription emits it, 0 when no subscription does
Event(name, request, payload) ==
  [name |-> name, request |-> request, payload |-> payload]

\* App.onFormChanged, App.onLocationFound and App.onError
onFormChanged(a) == [a EXCEPT !.currentLocation = <<>>]

onLocationFound(a, location) ==
  [a EXCEPT !.currentLocation = <<location>>, !.error = ""]

onError(a, error) == [a EXCEPT !.error = error]

\* what the provider may answer to a request
FormAnswers ==
  {[present |-> TRUE,
    results |-> <<Answered(Candidate(S_ViaRoma, <<>>, S_Firenze, <<>>,
                                     S_Firenze, S_50100, S_it, 9),
                           <<[lat |-> 43, lng |-> 11]>>,
                           S_ViaRomaFirenzeItalia)>>],
   [present |-> TRUE,
    results |-> <<Answered(Candidate(S_ViaRoma, <<>>, S_Milano, <<>>,
                                     S_Milano, S_20100, S_it, 9),
                           <<[lat |-> 45, lng |-> 9]>>, <<>>)>>],
   [present |-> TRUE, results |-> <<>>]}

\* the observable geocode returns for an address: what it may emit or fail
\* with, one outcome per answer of the provider
geocodeOf(builtAddress) ==
  {geocode(answer.present, answer.results, builtAddress) : answer \in FormAnswers}

InitForm ==
  /\ str1 = <<>>
  /\ str2 = <<>>
  /\ address = <<>>
  /\ results = <<>>
  /\ hasResults = FALSE
  /\ op = "none"
  /\ ret = NoRet
  /\ FormConstructed

\* onSubmit, up to and including the subscription to geocode
OnSubmit ==
  \E c \in {[component EXCEPT !.isLoading = TRUE, !.error = "",
                              !.formModified = FALSE]} :
    /\ validationFails(c) \/ requests < MaxRequests
    /\ op' = "onSubmit"
    /\ IF validationFails(c)
         THEN /\ component' = [c EXCEPT !.error = validationMessage(c)]
              /\ outputs' = <<Event("errorOccurred", 0, validationMessage(c))>>
              /\ app' = onError(app, validationMessage(c))
              /\ UNCHANGED <<inFlight, requests>>
       ELSE /\ component' = c
            /\ requests' = requests + 1
            /\ inFlight' = inFlight \cup
                 {[id |-> requests + 1, observable |-> geocodeOf(buildAddress(c))]}
            /\ outputs' = <<>>
            /\ UNCHANGED app
    /\ UNCHANGED <<str1, str2, address, results, hasResults, ret>>

\* the user sets a field, and onFieldChange runs on it
OnFieldChange ==
  \E field \in {"italianCountryCode", "roadType", "roadName", "city",
                "county", "postalCode"} :
    \E value \in FieldValues(field) :
      \E c \in {[component EXCEPT ![field] = value, !.error = "",
                                  !.formModified = TRUE]} :
        /\ op' = "onFieldChange"
        /\ component' =
             IF field # "italianCountryCode" THEN c
             ELSE IF /\ truthy(c.previousCountryCode)
                     /\ truthy(c.italianCountryCode)
                     /\ c.previousCountryCode # c.italianCountryCode
               THEN [c EXCEPT !.roadType = <<>>, !.roadName = <<>>,
                              !.city = <<>>, !.county = <<>>,
                              !.postalCode = <<>>,
                              !.previousCountryCode = c.italianCountryCode]
             ELSE [c EXCEPT !.previousCountryCode = c.italianCountryCode]
        /\ outputs' = <<Event("formChanged", 0, ""), Event("formChanged", 0, "")>>
        /\ app' = onFormChanged(onFormChanged(app))
        /\ UNCHANGED <<inFlight, requests>>
        /\ UNCHANGED <<str1, str2, address, results, hasResults, ret>>

\* the next callback of a subscription: geocode emits a location
GeocodeNext ==
  \E request \in inFlight :
      \E result \in request.observable :
        /\ result.kind = "location"
        /\ op' = "next"
        /\ \E location \in {[latitude |-> result.latitude,
                             longitude |-> result.longitude,
                             address |-> result.address,
                             postcode |-> component.postalCode]} :
             /\ outputs' = <<Event("locationFound", request.id, location)>>
             /\ app' = onLocationFound(app, location)
        /\ component' = [component EXCEPT !.error = "", !.isLoading = FALSE]
        /\ inFlight' = inFlight \ {request}
        /\ UNCHANGED requests
        /\ UNCHANGED <<str1, str2, address, results, hasResults, ret>>

\* the error callback of a subscription: geocode fails
GeocodeFails ==
  \E request \in inFlight :
      \E error \in request.observable :
        /\ error.kind = "error"
        /\ op' = "error"
        /\ outputs' = <<Event("errorOccurred", request.id, errorMessage(error))>>
        /\ app' = onError(app, errorMessage(error))
        /\ component' = [component EXCEPT !.error = errorMessage(error),
                                          !.isLoading = FALSE]
        /\ inFlight' = inFlight \ {request}
        /\ UNCHANGED requests
        /\ UNCHANGED <<str1, str2, address, results, hasResults, ret>>

NextForm == OnSubmit \/ OnFieldChange \/ GeocodeNext \/ GeocodeFails

SpecForm == InitForm /\ [][NextForm]_vars

\* every subscription is eventually called back: the observable of geocode
\* emits or errors
SpecFormLive == SpecForm /\ WF_vars(GeocodeNext \/ GeocodeFails)

(***************************************************************************)
(* A later submit or edit while a request is in flight.                    *)
(***************************************************************************)
\* the last step ran a callback of a geocode subscription
CallbackRan == op \in {"next", "error"}

\* C27: a response to an earlier request emits nothing after a later submit
\* (whatever a callback emits belongs to the latest request), and no
\* response sets App.currentLocation once an edit made after the last
\* submit has had onFormChanged clear it
C27_Original ==
  CallbackRan =>
    /\ \A i \in DOMAIN outputs : outputs[i].request = requests
    /\ op = "next" => ~component.formModified

(***************************************************************************)
(* The loading flag.                                                       *)
(***************************************************************************)
\* C30: after every call of onSubmit, isLoading eventually returns to false
C30_Original == (op = "onSubmit") ~> ~component.isLoading

====
